---------------------------- MODULE Spec2Model ----------------------------
(***************************************************************************)
(* wifilogd: the length-framed FIFO byte store (MessageBuffer) and the     *)
(* command processor that owns one (CommandProcessor).                     *)
(*                                                                         *)
(* The specifications share the variables:                                 *)
(*   BufSpec  a client (the unit-test fixture) drives a MessageBuffer      *)
(*            through its public interface: Append, ConsumeNextMessage,    *)
(*            Clear and ScopedRewinder;                                    *)
(*   Spec     a CommandProcessor is driven through ProcessCommand; its     *)
(*            MessageBuffer is private, the Os is the injected             *)
(*            collaborator (clock values and write outcomes are chosen     *)
(*            nondeterministically).                                       *)
(*   FairSpec Spec, the loop of Dump being taken when it can be;           *)
(*   PairSpec two CommandProcessors given write and dump commands side by  *)
(*            side, the Os answering both alike;                           *)
(*   OsSpec   a client calls the methods of Os;                            *)
(*   ClampSpec SAFELY_CLAMP is evaluated on values of small integral types;*)
(*   MainSpec MainLoop::RunOnce receives datagrams and hands them to the   *)
(*            CommandProcessor.                                            *)
(* Memory is modelled at byte granularity, integers little-endian.         *)
(***************************************************************************)
EXTENDS Integers, Sequences, FiniteSets, TLC

VARIABLES
    current_log_buffer_,  \* the MessageBuffer: [data_, capacity_, read_pos_, write_pos_]
    fatal,                \* "" while the process lives, else the CHECK / LOG(FATAL) that aborted it
    rewinder,             \* read position saved by the live ScopedRewinder, NoRewinder if none
    pc,                   \* "idle", or "Dump" while ProcessCommand is inside Dump's loop
    last,                 \* the most recent call and its arguments
    ret,                  \* what that call returned
    dump,                 \* Dump's locals while pc = "Dump": [buf, buflen, dump_fd]
    clock_reads,          \* Os::GetTimestamp calls of the current call, in order: [clock_id, write_pos_]
    os_writes,            \* Os::Write calls of the current call, in order: [line, n_written, err]
    close_calls,          \* fds passed to close() since the current call began, in order
    open_fds,             \* fds currently open in the process
    appended,             \* history: payloads accepted by Append since the last Clear
    n_consumed,           \* history: how many of them ConsumeNextMessage has handed out
    g_saved,              \* history: n_consumed when the live ScopedRewinder was built
    tainted,              \* history: Clear ran inside a ScopedRewinder that saved a position > 0
    n_clears,             \* history: how many times the client called Clear (bounded by MaxClears)
    prev_dump,            \* history: what dumps presented to Os::Write since the store last changed
    twin,                 \* a second CommandProcessor given commands side by side with this one, NoTwin if none
    datagram              \* what os_->ReceiveDatagram answered MainLoop::RunOnce last, NoDatagram if nothing

vars == <<current_log_buffer_, fatal, rewinder, pc, last, ret, dump, clock_reads,
          os_writes, close_calls, open_fds, appended, n_consumed, g_saved, tainted,
          n_clears, prev_dump, twin, datagram>>

-----------------------------------------------------------------------------
(* Bounds of the model *)

\* largest MessageBuffer the BufSpec client constructs
MaxBufSize == 7

\* how many times the BufSpec client calls Clear
MaxClears == 1

MaxDumpsCounted == 2
\* write commands given to each processor of a pair
MaxPairWrites == 2

-----------------------------------------------------------------------------
(* Machine integers *)

\* size_t arithmetic wraps; TLC's integers are 32 bits wide, so size_t is
\* modelled 30 bits wide: every value a uint16_t length can be compared with
\* after a wrap-around (2^30 - 1, 2^30 - 2, ...) is still above 65535
SizeTMod == 2^30
U16Mod == 65536
ByteMod == 256

\* a uint16_t as it lies in memory (little-endian)
U16Bytes(v) == <<v % ByteMod, (v \div ByteMod) % ByteMod>>

U16FromBytes(b0, b1) == b0 + ByteMod * b1

\* a - b in size_t arithmetic
SizeTSub(a, b) == (a - b) % SizeTMod

-----------------------------------------------------------------------------
(* MessageBuffer *)

\* sizeof(LengthHeader)
kHeaderSize == 2

NullPtr == -1

NoRewinder == -1

GetHeaderSize == kHeaderSize

\* new uint8_t[size]: the bytes are indeterminate; every byte gets the value fill
NewArray(size, fill) == [i \in 1..size |-> fill]

MessageBuffer(size, fill) ==
    [data_ |-> NewArray(size, fill), capacity_ |-> size, read_pos_ |-> 0, write_pos_ |-> 0]

\* a constructor that accepts a buffer with room for a header and nothing else
ConstructorCheck_AllowsHeaderOnly(size) == size >= GetHeaderSize

\* CHECK(size > GetHeaderSize()) of the constructor
ConstructorCheck(size) == size > GetHeaderSize

GetFreeSize(mb) == mb.capacity_ - mb.write_pos_

CanFitNow_NoGuard(mb, length) ==
    SizeTSub(GetFreeSize(mb), GetHeaderSize) >= length

CanFitNow_OffByHeader(mb, length) ==
    GetFreeSize(mb) >= GetHeaderSize /\ GetFreeSize(mb) >= length

CanFitNow(mb, length) ==
    /\ GetFreeSize(mb) >= GetHeaderSize
    /\ SizeTSub(GetFreeSize(mb), GetHeaderSize) >= length

\* CanFitEver that wants a byte to spare
CanFitEver_WantsSpare(mb, length) ==
    /\ mb.capacity_ >= GetHeaderSize
    /\ SizeTSub(mb.capacity_, GetHeaderSize) > length

CanFitEver(mb, length) ==
    /\ mb.capacity_ >= GetHeaderSize
    /\ SizeTSub(mb.capacity_, GetHeaderSize) >= length

Clear(mb) == [mb EXCEPT !.read_pos_ = 0, !.write_pos_ = 0]

\* a copy that leaves the write position where it was
AppendRawBytes_NoAdvance(mb, bytes, data_len) ==
    [mb EXCEPT !.data_ = [i \in 1..mb.capacity_ |->
                            IF i > mb.write_pos_ /\ i <= mb.write_pos_ + data_len
                            THEN bytes[i - mb.write_pos_] ELSE mb.data_[i]]]

\* memcpy(data_.get() + write_pos_, data_start, data_len); write_pos_ += data_len
AppendRawBytes(mb, bytes, data_len) ==
    [mb EXCEPT !.data_ = [i \in 1..mb.capacity_ |->
                            IF i > mb.write_pos_ /\ i <= mb.write_pos_ + data_len
                            THEN bytes[i - mb.write_pos_] ELSE mb.data_[i]],
               !.write_pos_ = mb.write_pos_ + data_len]

AppendHeader_CountsHeader(mb, message_len) ==
    AppendRawBytes(mb, U16Bytes(message_len + kHeaderSize), kHeaderSize)

AppendHeader(mb, message_len) ==
    AppendRawBytes(mb, U16Bytes(message_len), kHeaderSize)

\* Append: [mb, ret, fatal]
MBAppend_WritesBeforeCheck(mb, message, message_len) ==
    IF message_len = 0
    THEN [mb |-> mb, ret |-> FALSE, fatal |-> "CHECK(message_len)"]
    ELSE IF ~CanFitNow(mb, message_len)
    THEN [mb |-> AppendHeader(mb, message_len), ret |-> FALSE, fatal |-> ""]
    ELSE [mb |-> AppendRawBytes(AppendHeader(mb, message_len), message, message_len),
          ret |-> TRUE, fatal |-> ""]

\* an Append that turns an empty message away like one that does not fit
MBAppend_RejectsEmpty(mb, message, message_len) ==
    IF message_len = 0 \/ ~CanFitNow(mb, message_len)
    THEN [mb |-> mb, ret |-> FALSE, fatal |-> ""]
    ELSE [mb |-> AppendRawBytes(AppendHeader(mb, message_len), message, message_len),
          ret |-> TRUE, fatal |-> ""]

MBAppend(mb, message, message_len) ==
    IF message_len = 0
    THEN [mb |-> mb, ret |-> FALSE, fatal |-> "CHECK(message_len)"]
    ELSE IF ~CanFitNow(mb, message_len)
    THEN [mb |-> mb, ret |-> FALSE, fatal |-> ""]
    ELSE [mb |-> AppendRawBytes(AppendHeader(mb, message_len), message, message_len),
          ret |-> TRUE, fatal |-> ""]

\* ConsumeNextMessage: [mb, buf, len, fatal]; buf is an offset into data_ or NullPtr
ConsumeNextMessage_SkipsHeaderOnly(mb) ==
    IF mb.read_pos_ >= mb.write_pos_
    THEN [mb |-> mb, buf |-> NullPtr, len |-> 0, fatal |-> ""]
    ELSE IF ~(mb.read_pos_ + kHeaderSize <= mb.capacity_)
    THEN [mb |-> mb, buf |-> NullPtr, len |-> 0,
          fatal |-> "CHECK(header_start + sizeof(header) <= data_.get() + capacity_)"]
    ELSE LET payload_len == U16FromBytes(mb.data_[mb.read_pos_ + 1], mb.data_[mb.read_pos_ + 2])
             payload_start == mb.read_pos_ + kHeaderSize
             moved == [mb EXCEPT !.read_pos_ = payload_start]
         IN [mb |-> moved, buf |-> payload_start, len |-> payload_len, fatal |-> ""]

\* a ConsumeNextMessage that hands out the next message and leaves the read
\* position where it was
ConsumeNextMessage_LeavesReadPos(mb) ==
    IF mb.read_pos_ >= mb.write_pos_
    THEN [mb |-> mb, buf |-> NullPtr, len |-> 0, fatal |-> ""]
    ELSE [mb |-> mb, buf |-> mb.read_pos_ + kHeaderSize,
          len |-> U16FromBytes(mb.data_[mb.read_pos_ + 1], mb.data_[mb.read_pos_ + 2]),
          fatal |-> ""]

ConsumeNextMessage(mb) ==
    IF mb.read_pos_ >= mb.write_pos_
    THEN [mb |-> mb, buf |-> NullPtr, len |-> 0, fatal |-> ""]
    ELSE IF ~(mb.read_pos_ + kHeaderSize <= mb.capacity_)
    THEN [mb |-> mb, buf |-> NullPtr, len |-> 0,
          fatal |-> "CHECK(header_start + sizeof(header) <= data_.get() + capacity_)"]
    ELSE LET payload_len == U16FromBytes(mb.data_[mb.read_pos_ + 1], mb.data_[mb.read_pos_ + 2])
             payload_start == mb.read_pos_ + kHeaderSize
             moved == [mb EXCEPT !.read_pos_ = payload_start + payload_len]
         IN IF ~(moved.read_pos_ <= mb.capacity_)
            THEN [mb |-> moved, buf |-> NullPtr, len |-> 0,
                  fatal |-> "CHECK(read_pos_ <= capacity_)"]
            ELSE [mb |-> moved, buf |-> payload_start, len |-> payload_len, fatal |-> ""]

\* ScopedRewinder: the constructor saves the read position, the destructor restores it
RewinderSave(mb) == mb.read_pos_

RewinderRestore(mb, saved) == [mb EXCEPT !.read_pos_ = saved]

\* the bytes a returned (pointer, length) pair designates; -1 stands for a byte
\* beyond the array
View(mb, buf, len) ==
    [i \in 1..len |-> IF buf + i \in 1..mb.capacity_ THEN mb.data_[buf + i] ELSE -1]

-----------------------------------------------------------------------------
(* BufSpec: a client drives one MessageBuffer through its public interface *)

\* values the indeterminate bytes of a new array may hold
Fills == {0, 255}

\* first bytes of the messages the client appends
MsgSeeds == {1}

\* the message of message_len bytes starting with seed: seed, seed + 1, ...
Msg(seed, message_len) == [i \in 1..message_len |-> (seed + i - 1) % ByteMod]

BufSizes == 1..MaxBufSize

\* message lengths offered to Append: 0 (fatal), fitting ones, and longer than any buffer
MsgLens == 0..(MaxBufSize + 1)

\* what a call returned: val for a bool result, (buf, len) for ConsumeNextMessage
Returned(val, buf, len) == [val |-> val, buf |-> buf, len |-> len]

Void == Returned(FALSE, NullPtr, 0)

\* no dump has run on the store as it is now: [clean: how many dumps returned
\* with every write succeeding (counted up to MaxDumpsCounted), lines: what the
\* last of them passed to Os::Write, failed_since: a dump has returned false]
NoPrevDump == [clean |-> 0, lines |-> <<>>, failed_since |-> FALSE]

NoDump == [buf |-> NullPtr, buflen |-> 0, dump_fd |-> -1, wrapped_fd |-> -1]

\* no MainLoop has received anything
NoDatagram == [datagram_len |-> 0, err |-> 0]

\* only one CommandProcessor exists
NoTwin == [exists |-> FALSE]

InitCommon ==
    /\ rewinder = NoRewinder
    /\ pc = "idle"
    /\ last = [op |-> "construct"]
    /\ ret = Void
    /\ dump = NoDump
    /\ clock_reads = <<>>
    /\ os_writes = <<>>
    /\ close_calls = <<>>
    /\ open_fds = {}
    /\ appended = <<>>
    /\ n_consumed = 0
    /\ g_saved = 0
    /\ tainted = FALSE
    /\ n_clears = 0
    /\ prev_dump = NoPrevDump
    /\ datagram = NoDatagram

InitAlone ==
    /\ InitCommon
    /\ twin = NoTwin

BufInit ==
    /\ \E size \in BufSizes, fill \in Fills :
         /\ current_log_buffer_ = MessageBuffer(size, fill)
         /\ fatal = IF ConstructorCheck(size) THEN "" ELSE "CHECK(size > GetHeaderSize())"
    /\ InitAlone

ProcessorVarsUnchanged ==
    UNCHANGED <<pc, dump, clock_reads, os_writes, close_calls, open_fds, prev_dump, twin,
                datagram>>

\* buffer_.Append(message.data(), message_len), message = Msg(seed, message_len)
AppendCall(seed, message_len) ==
    /\ fatal = ""
    /\ last' = [op |-> "Append"]
    /\ LET message == Msg(seed, message_len)
           r == MBAppend(current_log_buffer_, message, message_len)
       IN /\ current_log_buffer_' = r.mb
          /\ fatal' = r.fatal
          /\ ret' = Returned(r.ret, NullPtr, 0)
          /\ appended' = IF r.ret THEN Append(appended, message) ELSE appended
    /\ UNCHANGED <<rewinder, n_consumed, g_saved, tainted, n_clears>>
    /\ ProcessorVarsUnchanged

DoAppend == \E seed \in MsgSeeds, message_len \in MsgLens : AppendCall(seed, message_len)

\* buffer_.ConsumeNextMessage()
DoConsume ==
    /\ fatal = ""
    /\ LET r == ConsumeNextMessage(current_log_buffer_)
       IN /\ current_log_buffer_' = r.mb
          /\ fatal' = r.fatal
          /\ ret' = Returned(FALSE, r.buf, r.len)
          /\ n_consumed' = IF r.buf # NullPtr THEN n_consumed + 1 ELSE n_consumed
    /\ last' = [op |-> "ConsumeNextMessage"]
    /\ UNCHANGED <<rewinder, appended, g_saved, tainted, n_clears>>
    /\ ProcessorVarsUnchanged

\* buffer_.Clear()
DoClear ==
    /\ fatal = ""
    /\ n_clears < MaxClears
    /\ n_clears' = n_clears + 1
    /\ current_log_buffer_' = Clear(current_log_buffer_)
    /\ last' = [op |-> "Clear"]
    /\ ret' = Void
    /\ appended' = <<>>
    /\ n_consumed' = 0
    /\ tainted' = (tainted \/ rewinder > 0)
    /\ UNCHANGED <<fatal, rewinder, g_saved>>
    /\ ProcessorVarsUnchanged

\* MessageBuffer::ScopedRewinder rewinder(&buffer_): the scope opens
RewinderEnter ==
    /\ fatal = ""
    /\ rewinder = NoRewinder
    /\ rewinder' = RewinderSave(current_log_buffer_)
    /\ g_saved' = n_consumed
    /\ last' = [op |-> "ScopedRewinder"]
    /\ ret' = Void
    /\ UNCHANGED <<current_log_buffer_, fatal, appended, n_consumed, tainted, n_clears>>
    /\ ProcessorVarsUnchanged

\* the scope closes: ~ScopedRewinder
RewinderExit ==
    /\ fatal = ""
    /\ rewinder # NoRewinder
    /\ current_log_buffer_' = RewinderRestore(current_log_buffer_, rewinder)
    /\ rewinder' = NoRewinder
    /\ n_consumed' = g_saved
    /\ last' = [op |-> "~ScopedRewinder"]
    /\ ret' = Void
    /\ UNCHANGED <<fatal, appended, g_saved, tainted, n_clears>>
    /\ ProcessorVarsUnchanged

BufNext == DoAppend \/ DoConsume \/ DoClear \/ RewinderEnter \/ RewinderExit

BufSpec == BufInit /\ [][BufNext]_vars

-----------------------------------------------------------------------------
(* Wire format, Os and helpers used by the CommandProcessor *)

\* protocol::kMaxMessageSize, scaled down
kMaxMessageSize == 5

\* sizeof(protocol::Command): opcode (1 byte), payload_len (uint16_t)
kCommandSize == 3

kWriteAsciiMessage == 2

kDumpBuffers == 32

\* an opcode value outside the enumeration
kUnknownOpcode == 255

\* sizeof(Os::Timestamp): uint32_t secs, uint32_t nsecs
kTimestampSize == 8

\* sizeof(TimestampHeader): three Os::Timestamp
kTimestampHeaderSize == 3 * kTimestampSize

kInvalidFd == -1

\* the fd a dump request brings (kFakeFd of the tests)
kFakeFd == 100

EINTR == 4

EBADF == 9

Clocks == <<"CLOCK_MONOTONIC", "CLOCK_BOOTTIME", "CLOCK_REALTIME">>

\* a uint32_t as it lies in memory (little-endian)
U32Bytes(v) ==
    <<v % ByteMod, (v \div ByteMod) % ByteMod,
      (v \div (ByteMod * ByteMod)) % ByteMod, (v \div (ByteMod * ByteMod * ByteMod)) % ByteMod>>

U32FromBytes(b) ==
    b[1] + ByteMod * (b[2] + ByteMod * (b[3] + ByteMod * b[4]))

Timestamp(secs, nsecs) == [secs |-> secs, nsecs |-> nsecs]

TimestampBytes(t) == U32Bytes(t.secs) \o U32Bytes(t.nsecs)

\* the TimestampHeader struct as bytes: since_boot_awake_only, since_boot_with_sleep, since_epoch
TimestampHeaderBytes(h) ==
    TimestampBytes(h.since_boot_awake_only) \o TimestampBytes(h.since_boot_with_sleep)
        \o TimestampBytes(h.since_epoch)

TimestampHeaderFromBytes(b) ==
    [since_boot_awake_only |->
         Timestamp(U32FromBytes(SubSeq(b, 1, 4)), U32FromBytes(SubSeq(b, 5, 8))),
     since_boot_with_sleep |->
         Timestamp(U32FromBytes(SubSeq(b, 9, 12)), U32FromBytes(SubSeq(b, 13, 16))),
     since_epoch |->
         Timestamp(U32FromBytes(SubSeq(b, 17, 20)), U32FromBytes(SubSeq(b, 21, 24)))]

\* SAFELY_CLAMP(SRC, DST_TYPE, MIN, MAX) for an unsigned DST_TYPE of DstMod values
SafelyClamp_NoUpperBound(input, MinV, MaxV, DstMod) ==
    IF input < MinV THEN MinV ELSE input % DstMod

SafelyClamp(input, MinV, MaxV, DstMod) ==
    IF input < MinV THEN MinV
    ELSE IF input > MaxV THEN MaxV
    ELSE input % DstMod

\* ByteBuffer<N>::AppendOrDie: [bytes, fatal]
AppendOrDie(bb, N, src, len) ==
    IF Len(bb.bytes) + len > N
    THEN [bytes |-> bb.bytes, fatal |-> "CHECK in ByteBuffer::AppendOrDie"]
    ELSE [bytes |-> bb.bytes \o SubSeq(src, 1, len), fatal |-> bb.fatal]

EmptyByteBuffer == [bytes |-> <<>>, fatal |-> ""]

\* local_utils::CopyFromBufferOrDie<T>(buf, buf_len), T of size bytes: CHECK(buf_len >= sizeof(T))
CopyFromBufferOrDieCheck(buf_len, size) == buf_len >= size

NsecToUsec(nsec) == nsec \div 1000

DigitChars == <<"0", "1", "2", "3", "4", "5", "6", "7", "8", "9">>

\* "%" PRIu32: decimal, no padding; a string is modelled as a sequence of characters
RECURSIVE FormatU32(_)
FormatU32(v) ==
    IF v < 10 THEN <<DigitChars[v + 1]>>
    ELSE (CHOOSE s \in {FormatU32(q) : q \in {v \div 10}} : TRUE)
             \o <<DigitChars[(v % 10) + 1]>>

\* a microsecond field printed without its padding
FormatU32Pad6_NoPad(v) == FormatU32(v)

\* "%06" PRIu32: decimal, padded with zeros to at least six characters
FormatU32Pad6(v) ==
    LET d == FormatU32(v)
    IN IF Len(d) >= 6 THEN d ELSE [i \in 1..(6 - Len(d)) |-> "0"] \o d

FormatTimestamp(t) == FormatU32(t.secs) \o <<".">> \o FormatU32Pad6(NsecToUsec(t.nsecs))

\* CommandProcessor::TimestampHeader::ToString
TimestampHeaderToString(h) ==
    FormatTimestamp(h.since_boot_awake_only) \o <<" ">>
        \o FormatTimestamp(h.since_boot_with_sleep) \o <<" ">>
        \o FormatTimestamp(h.since_epoch)

\* unique_fd: the destructor closes a held fd; moving from one leaves it empty
UniqueFdClose(u, closes) == IF u # kInvalidFd THEN Append(closes, u) ELSE closes

\* a move that leaves the source holding the fd
UniqueFdMovedFrom_Copies(u) == u

UniqueFdMovedFrom(u) == kInvalidFd

\* the fds still open once the fds in closes have been closed
StillOpen(open, closes) == open \ {closes[i] : i \in 1..Len(closes)}

-----------------------------------------------------------------------------
(* CommandProcessor *)

\* what a step of ProcessCommand leaves behind
Step(mb, at, d, saved, r, f, reads, writes, closes, cleared, stored) ==
    [mb |-> mb, pc |-> at, dump |-> d, rewinder |-> saved, ret |-> r, fatal |-> f,
     clock_reads |-> reads, os_writes |-> writes, closes |-> closes,
     cleared |-> cleared, stored |-> stored]

\* the process aborts
Abort(mb, f, reads, writes, closes) ==
    Step(mb, "idle", NoDump, NoRewinder, Void, f, reads, writes, closes, FALSE, <<>>)

\* return val; (idle, with nothing in Dump's frame)
Return(mb, val, reads, writes, closes, cleared, stored) ==
    Step(mb, "idle", NoDump, NoRewinder, Returned(val, NullPtr, 0), "",
         reads, writes, closes, cleared, stored)

\* ProcessCommand's frame is left: wrapped_fd is destroyed; while Dump is still
\* running the frame keeps it
ReturnFrom(s, wrapped_fd) ==
    IF s.fatal # "" THEN s
    ELSE IF s.pc = "Dump" THEN [s EXCEPT !.dump.wrapped_fd = wrapped_fd]
    ELSE [s EXCEPT !.closes = UniqueFdClose(wrapped_fd, s.closes)]

\* the TimestampHeader CopyCommandToLog fills in; os_times[clock] is what
\* Os::GetTimestamp(clock) answers
ReadTimestamps(os_times) ==
    [since_boot_awake_only |-> os_times[Clocks[1]],
     since_boot_with_sleep |-> os_times[Clocks[2]],
     since_epoch |-> os_times[Clocks[3]]]

\* the clocks read with CLOCK_REALTIME first
GetTimestamps_RealtimeFirst(mb) ==
    [i \in 1..3 |-> [clock_id |-> Clocks[((i + 1) % 3) + 1], write_pos_ |-> mb.write_pos_]]

\* the three os_->GetTimestamp calls of CopyCommandToLog, made while the store
\* is mb: each with the clock it reads and the write position it finds
GetTimestamps(mb) ==
    [i \in 1..3 |-> [clock_id |-> Clocks[i], write_pos_ |-> mb.write_pos_]]

\* const uint16_t command_len = SAFELY_CLAMP(command_len_in, uint16_t, 0, kMaxMessageSize)
CommandLen(command_len_in) == SafelyClamp(command_len_in, 0, kMaxMessageSize, U16Mod)

\* a total_size computed from the low 16 bits of the input length
TotalSize_Truncates(command_len_in) == (kTimestampHeaderSize + (command_len_in % U16Mod)) % U16Mod

\* uint16_t total_size = sizeof(TimestampHeader) + command_len
TotalSize(command_len_in) == (kTimestampHeaderSize + CommandLen(command_len_in)) % U16Mod

\* a store that blanks the opcode byte of the command it copies
StoreCommand_BlanksOpcode(mb1, cleared, command_buffer, command_len, os_times) ==
    LET tstamp_header == ReadTimestamps(os_times)
        buf1 == AppendOrDie(EmptyByteBuffer, kTimestampHeaderSize + kMaxMessageSize,
                            TimestampHeaderBytes(tstamp_header), kTimestampHeaderSize)
        message_buf == AppendOrDie(buf1, kTimestampHeaderSize + kMaxMessageSize,
                                   [command_buffer EXCEPT ![1] = 0], command_len)
    IN IF message_buf.fatal # ""
       THEN Abort(mb1, message_buf.fatal, GetTimestamps(mb1), <<>>, <<>>)
       ELSE LET a == MBAppend(mb1, message_buf.bytes,
                              SafelyClamp(Len(message_buf.bytes), 0, U16Mod - 1, U16Mod))
            IN IF a.fatal # ""
               THEN Abort(a.mb, a.fatal, GetTimestamps(mb1), <<>>, <<>>)
               ELSE IF ~a.ret
               THEN Abort(a.mb, "LOG(FATAL) Unexpected failure to Append()", GetTimestamps(mb1), <<>>, <<>>)
               ELSE Return(a.mb, TRUE, GetTimestamps(mb1), <<>>, <<>>, cleared, <<message_buf.bytes>>)

\* a tail that stores the command without its timestamp header
StoreCommand_OmitsTimestamps(mb1, cleared, command_buffer, command_len, os_times) ==
    LET message_buf == AppendOrDie(EmptyByteBuffer, kTimestampHeaderSize + kMaxMessageSize,
                                   command_buffer, command_len)
    IN IF message_buf.fatal # ""
       THEN Abort(mb1, message_buf.fatal, GetTimestamps(mb1), <<>>, <<>>)
       ELSE LET a == MBAppend(mb1, message_buf.bytes,
                              SafelyClamp(Len(message_buf.bytes), 0, U16Mod - 1, U16Mod))
            IN IF a.fatal # ""
               THEN Abort(a.mb, a.fatal, GetTimestamps(mb1), <<>>, <<>>)
               ELSE IF ~a.ret
               THEN Abort(a.mb, "LOG(FATAL) Unexpected failure to Append()", GetTimestamps(mb1), <<>>, <<>>)
               ELSE Return(a.mb, TRUE, GetTimestamps(mb1), <<>>, <<>>, cleared, <<message_buf.bytes>>)

\* the tail of CopyCommandToLog: from the reading of the clocks on
StoreCommand(mb1, cleared, command_buffer, command_len, os_times) ==
    LET tstamp_header == ReadTimestamps(os_times)
        buf1 == AppendOrDie(EmptyByteBuffer, kTimestampHeaderSize + kMaxMessageSize,
                            TimestampHeaderBytes(tstamp_header), kTimestampHeaderSize)
        message_buf == AppendOrDie(buf1, kTimestampHeaderSize + kMaxMessageSize,
                                   command_buffer, command_len)
    IN IF message_buf.fatal # ""
       THEN Abort(mb1, message_buf.fatal, GetTimestamps(mb1), <<>>, <<>>)
       ELSE LET a == MBAppend(mb1, message_buf.bytes,
                              SafelyClamp(Len(message_buf.bytes), 0, U16Mod - 1, U16Mod))
            IN IF a.fatal # ""
               THEN Abort(a.mb, a.fatal, GetTimestamps(mb1), <<>>, <<>>)
               ELSE IF ~a.ret
               THEN Abort(a.mb, "LOG(FATAL) Unexpected failure to Append()", GetTimestamps(mb1), <<>>, <<>>)
               ELSE Return(a.mb, TRUE, GetTimestamps(mb1), <<>>, <<>>, cleared, <<message_buf.bytes>>)

\* CopyCommandToLog that gives up, instead of clearing, when the record does not fit now
CopyCommandToLog_NoEviction(mb, command_buffer, command_len_in, os_times) ==
    LET command_len == SafelyClamp(command_len_in, 0, kMaxMessageSize, U16Mod)
        total_size == (kTimestampHeaderSize + command_len) % U16Mod
    IN IF ~CanFitEver(mb, total_size)
       THEN Abort(mb, "CHECK(current_log_buffer_.CanFitEver(total_size))", <<>>, <<>>, <<>>)
       ELSE IF ~CanFitNow(mb, total_size)
       THEN Return(mb, FALSE, <<>>, <<>>, <<>>, FALSE, <<>>)
       ELSE StoreCommand(mb, FALSE, command_buffer, command_len, os_times)

\* CopyCommandToLog that clears the store before every record
CopyCommandToLog_AlwaysClears(mb, command_buffer, command_len_in, os_times) ==
    LET command_len == CommandLen(command_len_in)
        total_size == TotalSize(command_len_in)
    IN IF ~CanFitEver(mb, total_size)
       THEN Abort(mb, "CHECK(current_log_buffer_.CanFitEver(total_size))", <<>>, <<>>, <<>>)
       ELSE IF ~CanFitNow(Clear(mb), total_size)
       THEN Abort(Clear(mb), "CHECK(current_log_buffer_.CanFitNow(total_size))", <<>>, <<>>, <<>>)
       ELSE StoreCommand(Clear(mb), TRUE, command_buffer, command_len, os_times)

\* CommandProcessor::CopyCommandToLog
CopyCommandToLog(mb, command_buffer, command_len_in, os_times) ==
    LET command_len == CommandLen(command_len_in)
        total_size == TotalSize(command_len_in)
    IN IF ~CanFitEver(mb, total_size)
       THEN Abort(mb, "CHECK(current_log_buffer_.CanFitEver(total_size))", <<>>, <<>>, <<>>)
       ELSE LET cleared == ~CanFitNow(mb, total_size)
                mb1 == IF cleared THEN Clear(mb) ELSE mb
            IN IF ~CanFitNow(mb1, total_size)
               THEN Abort(mb1, "CHECK(current_log_buffer_.CanFitNow(total_size))", <<>>, <<>>, <<>>)
               ELSE StoreCommand(mb1, cleared, command_buffer, command_len, os_times)

\* a Dump whose exit leaves the read position where the loop left it
DumpReturn_NoRewind(mb, d, saved, val, writes, closes) ==
    Step(mb, "idle", NoDump, NoRewinder, Returned(val, NullPtr, 0), "",
         <<>>, writes, UniqueFdClose(d.dump_fd, closes), FALSE, <<>>)

\* Dump returns val: the rewinder, then dump_fd are destroyed
DumpReturn(mb, d, saved, val, writes, closes) ==
    Step(RewinderRestore(mb, saved), "idle", NoDump, NoRewinder, Returned(val, NullPtr, 0), "",
         <<>>, writes, UniqueFdClose(d.dump_fd, closes), FALSE, <<>>)

\* a loop that is left after its first pass
DumpNext_StopsAfterFirst(c, d, saved, writes, closes) ==
    IF c.fatal # "" THEN Abort(c.mb, c.fatal, <<>>, writes, closes)
    ELSE IF c.buf = NullPtr \/ writes # <<>> THEN DumpReturn(c.mb, d, saved, TRUE, writes, closes)
    ELSE Step(c.mb, "Dump", [d EXCEPT !.buf = c.buf, !.buflen = c.len], saved, Void, "",
              <<>>, writes, closes, FALSE, <<>>)

\* a loop whose exit reports failure when it wrote nothing
DumpNext_EmptyIsFailure(c, d, saved, writes, closes) ==
    IF c.fatal # "" THEN Abort(c.mb, c.fatal, <<>>, writes, closes)
    ELSE IF c.buf = NullPtr THEN DumpReturn(c.mb, d, saved, writes # <<>>, writes, closes)
    ELSE Step(c.mb, "Dump", [d EXCEPT !.buf = c.buf, !.buflen = c.len], saved, Void, "",
              <<>>, writes, closes, FALSE, <<>>)

\* after a ConsumeNextMessage of Dump: leave the loop (buf is null) or go round it
DumpNext(c, d, saved, writes, closes) ==
    IF c.fatal # "" THEN Abort(c.mb, c.fatal, <<>>, writes, closes)
    ELSE IF c.buf = NullPtr THEN DumpReturn(c.mb, d, saved, TRUE, writes, closes)
    ELSE Step(c.mb, "Dump", [d EXCEPT !.buf = c.buf, !.buflen = c.len], saved, Void, "",
              <<>>, writes, closes, FALSE, <<>>)

\* Dump, up to the first test of the loop condition
Dump(mb, dump_fd) ==
    DumpNext(ConsumeNextMessage(mb),
             [buf |-> NullPtr, buflen |-> 0, dump_fd |-> dump_fd, wrapped_fd |-> kInvalidFd],
             RewinderSave(mb), <<>>, <<>>)

\* what Os::Write may answer for a buffer of buflen bytes: all of it written,
\* part of it written (a truncated write), interrupted after part of it, or
\* an error
WriteOutcomes(buflen) ==
    {[n_written |-> buflen, err |-> 0],
     [n_written |-> buflen \div 2, err |-> 0],
     [n_written |-> buflen \div 2, err |-> EINTR],
     [n_written |-> 0, err |-> EBADF]}

\* a line that also shows a byte of the stored command
DumpLine_ShowsCommandByte(mb, d) ==
    CHOOSE timestamp_string \in
        {TimestampHeaderToString(TimestampHeaderFromBytes(SubSeq(b, 1, kTimestampHeaderSize)))
            \o FormatU32(b[kTimestampHeaderSize + 2]) \o <<"\n">> :
            b \in {View(mb, d.buf, kTimestampHeaderSize + kCommandSize)}} : TRUE

\* the line Dump writes for the message at (buf, buflen)
DumpLine(mb, d) ==
    CHOOSE timestamp_string \in
        {TimestampHeaderToString(tstamp_header) \o <<"\n">> :
            tstamp_header \in {TimestampHeaderFromBytes(b) :
                                  b \in {View(mb, d.buf, kTimestampHeaderSize)}}} : TRUE

\* a loop body for which EINTR is an error like any other
DumpLoopBody_EintrIsFatal(mb, d, saved, outcome, writes, closes) ==
    IF outcome.err # 0
    THEN DumpReturn(mb, d, saved, FALSE,
                    Append(writes, [fd |-> d.dump_fd, buf |-> DumpLine(mb, d),
                                    n_written |-> outcome.n_written, err |-> outcome.err]),
                    closes)
    ELSE DumpNext(ConsumeNextMessage(mb), d, saved,
                  Append(writes, [fd |-> d.dump_fd, buf |-> DumpLine(mb, d),
                                  n_written |-> outcome.n_written, err |-> outcome.err]),
                  closes)

\* a loop body that goes on to the next record whatever Os::Write reports
DumpLoopBody_IgnoresErrors(mb, d, saved, outcome, writes, closes) ==
    DumpNext(ConsumeNextMessage(mb), d, saved,
             Append(writes, [fd |-> d.dump_fd, buf |-> DumpLine(mb, d),
                             n_written |-> outcome.n_written, err |-> outcome.err]),
             closes)

\* a loop body whose error exit skips the rewinder
DumpLoopBody_ErrorExitSkipsRewind(mb, d, saved, outcome, writes, closes) ==
    IF outcome.err # EINTR /\ outcome.err # 0
    THEN DumpReturn_NoRewind(mb, d, saved, FALSE,
                             Append(writes, [fd |-> d.dump_fd, buf |-> DumpLine(mb, d),
                                             n_written |-> outcome.n_written, err |-> outcome.err]),
                             closes)
    ELSE DumpNext(ConsumeNextMessage(mb), d, saved,
                  Append(writes, [fd |-> d.dump_fd, buf |-> DumpLine(mb, d),
                                  n_written |-> outcome.n_written, err |-> outcome.err]),
                  closes)

\* a loop body that gives up when Os::Write wrote less than the whole line
DumpLoopBody_ShortWriteIsFailure(mb, d, saved, outcome, writes, closes) ==
    IF (outcome.err # EINTR /\ outcome.err # 0) \/ outcome.n_written < Len(DumpLine(mb, d))
    THEN DumpReturn(mb, d, saved, FALSE,
                    Append(writes, [fd |-> d.dump_fd, buf |-> DumpLine(mb, d),
                                    n_written |-> outcome.n_written, err |-> outcome.err]),
                    closes)
    ELSE DumpNext(ConsumeNextMessage(mb), d, saved,
                  Append(writes, [fd |-> d.dump_fd, buf |-> DumpLine(mb, d),
                                  n_written |-> outcome.n_written, err |-> outcome.err]),
                  closes)

\* one pass through the body of Dump's loop; outcome is what Os::Write answers
DumpLoopBody(mb, d, saved, outcome, writes, closes) ==
    IF ~CopyFromBufferOrDieCheck(d.buflen, kTimestampHeaderSize)
    THEN Abort(mb, "CHECK in CopyFromBufferOrDie<TimestampHeader>", <<>>, writes, closes)
    ELSE LET timestamp_string == DumpLine(mb, d)
             written == Append(writes, [fd |-> d.dump_fd, buf |-> timestamp_string,
                                        n_written |-> outcome.n_written, err |-> outcome.err])
         IN IF outcome.err # EINTR /\ outcome.err # 0
            THEN DumpReturn(mb, d, saved, FALSE, written, closes)
            ELSE DumpNext(ConsumeNextMessage(mb), d, saved, written, closes)

\* answers of the Os to the three clock reads of one command
OsTimes ==
    {[c \in {Clocks[1], Clocks[2], Clocks[3]} |->
         IF c = Clocks[1] THEN Timestamp(0, 999)
         ELSE IF c = Clocks[2] THEN Timestamp(1, 1000)
         ELSE Timestamp(123456, 123456000)],
     [c \in {Clocks[1], Clocks[2], Clocks[3]} |->
         IF c = Clocks[1] THEN Timestamp(7, 0)
         ELSE IF c = Clocks[2] THEN Timestamp(2147483647, 999999999)
         ELSE Timestamp(65536, 1001)]}

\* what the build may do when control reaches the end of ProcessCommand without
\* a return statement (an opcode that matches no case of the switch)
UndefinedOutcomes == {"returns true", "returns false", "traps"}

FlowsOffTheEnd(mb, ub) ==
    IF ub = "traps"
    THEN Abort(mb, "control reached the end of ProcessCommand", <<>>, <<>>, <<>>)
    ELSE Return(mb, ub = "returns true", <<>>, <<>>, <<>>, FALSE, <<>>)

\* ProcessCommand without the test of n_bytes_read against sizeof(protocol::Command)
ProcessCommand_ReadsShortCommands(mb, input_buffer, n_bytes_read, fd) ==
    IF ~CopyFromBufferOrDieCheck(n_bytes_read, kCommandSize)
    THEN {Abort(mb, "CHECK in CopyFromBufferOrDie<protocol::Command>", <<>>, <<>>, <<>>)}
    ELSE IF input_buffer[1] = kWriteAsciiMessage
    THEN {ReturnFrom(CopyCommandToLog(mb, input_buffer, n_bytes_read, os_times), fd) :
             os_times \in OsTimes}
    ELSE IF input_buffer[1] = kDumpBuffers
    THEN {ReturnFrom(Dump(mb, fd), UniqueFdMovedFrom(fd))}
    ELSE {ReturnFrom(FlowsOffTheEnd(mb, ub), fd) : ub \in UndefinedOutcomes}

\* ProcessCommand, up to its return or to the first test of Dump's loop
\* condition: the set of what may come of the call, one element for each
\* answer of the Os clocks and each outcome of undefined behaviour
ProcessCommand(mb, input_buffer, n_bytes_read, fd) ==
    LET wrapped_fd == fd
    IN IF n_bytes_read < kCommandSize
       THEN {ReturnFrom(Return(mb, FALSE, <<>>, <<>>, <<>>, FALSE, <<>>), wrapped_fd)}
       ELSE IF ~CopyFromBufferOrDieCheck(n_bytes_read, kCommandSize)
       THEN {Abort(mb, "CHECK in CopyFromBufferOrDie<protocol::Command>", <<>>, <<>>, <<>>)}
       ELSE LET opcode == input_buffer[1]
            IN IF opcode = kWriteAsciiMessage
               THEN {ReturnFrom(CopyCommandToLog(mb, input_buffer, n_bytes_read, os_times),
                                wrapped_fd) : os_times \in OsTimes}
               ELSE IF opcode = kDumpBuffers
               THEN {ReturnFrom(Dump(mb, wrapped_fd), UniqueFdMovedFrom(wrapped_fd))}
               ELSE {ReturnFrom(FlowsOffTheEnd(mb, ub), wrapped_fd) : ub \in UndefinedOutcomes}

-----------------------------------------------------------------------------
(* Spec: a CommandProcessor driven through ProcessCommand *)

\* sizes of the records the processor stores, header included
MinRecordSize == kHeaderSize + kTimestampHeaderSize + kCommandSize

MaxRecordSize == kHeaderSize + kTimestampHeaderSize + kMaxMessageSize

\* buffer sizes a CommandProcessor is built with: too small for the constructor,
\* too small for any record, the smallest record only, one largest record,
\* a largest and a smallest record
ProcSizes == {kHeaderSize, kHeaderSize + 1, MinRecordSize, MaxRecordSize,
              MaxRecordSize + MinRecordSize}

\* size of the caller's array holding a command (CommandBuffer of the tests)
InputBufLen == kMaxMessageSize + 2

\* a command as the tests build it: protocol::Command, protocol::AsciiMessage
\* (tag_len, data_len, severity), then text; cut or padded to InputBufLen bytes
MakeInput(opcode, payload_len, tag_len, data_len) ==
    LET head == <<opcode>> \o U16Bytes(payload_len) \o <<tag_len>> \o U16Bytes(data_len) \o <<1>>
    IN [i \in 1..InputBufLen |-> IF i <= Len(head) THEN head[i] ELSE (64 + i) % ByteMod]

WriteCommand == MakeInput(kWriteAsciiMessage, kMaxMessageSize - kCommandSize, 1, 0)

\* a write command declaring lengths far beyond the bytes it carries
BadLengthsCommand == MakeInput(kWriteAsciiMessage, U16Mod - 1, ByteMod - 1, U16Mod - 1)

DumpCommand == MakeInput(kDumpBuffers, 0, 0, 0)

UnknownCommand == MakeInput(kUnknownOpcode, 0, 0, 0)

Command(input_buffer, n_bytes_read) ==
    [input_buffer |-> input_buffer, n_bytes_read |-> n_bytes_read]

\* what the caller may pass: a write command cut to nothing, to one byte short
\* of a header, to a bare header, whole, and longer than the largest message,
\* by one byte and by more than a uint16_t counts; a
\* write command with bad inner lengths; a dump command, short and whole; a
\* command with an opcode the protocol does not define
Commands ==
    {Command(WriteCommand, n) :
        n \in {0, kCommandSize - 1, kCommandSize, kMaxMessageSize, kMaxMessageSize + 1}}
    \cup {Command(WriteCommand, U16Mod + kCommandSize),
          Command(BadLengthsCommand, kMaxMessageSize),
          Command(DumpCommand, kCommandSize - 1),
          Command(DumpCommand, kCommandSize),
          Command(UnknownCommand, kCommandSize)}

Fds == {kInvalidFd, kFakeFd}

\* the buffers passed to Os::Write, in order
LinesOf(writes) == [i \in 1..Len(writes) |-> writes[i].buf]

\* every Os::Write reported all bytes written and no error
AllWritten(writes) ==
    \A i \in 1..Len(writes) : writes[i].err = 0 /\ writes[i].n_written = Len(writes[i].buf)

\* history of dumps after step r: forgotten when a record is stored; a dump
\* that returned with every write succeeding leaves its lines, one that
\* returned false leaves a mark
DumpSeen(prev, r, in_dump) ==
    IF r.stored # <<>> THEN NoPrevDump
    ELSE IF ~in_dump \/ r.pc # "idle" \/ r.fatal # "" THEN prev
    ELSE IF ~r.ret.val THEN [prev EXCEPT !.failed_since = TRUE]
    ELSE IF AllWritten(r.os_writes)
    THEN [prev EXCEPT !.clean = IF prev.clean < MaxDumpsCounted THEN prev.clean + 1 ELSE prev.clean,
                      !.lines = LinesOf(r.os_writes)]
    ELSE prev

Init ==
    /\ \E size \in ProcSizes, fill \in Fills :
         /\ current_log_buffer_ = MessageBuffer(size, fill)
         /\ fatal = IF ConstructorCheck(size) THEN "" ELSE "CHECK(size > GetHeaderSize())"
    /\ InitAlone

\* the caller holds fd open when it is a real one
HeldOpen(fd) == IF fd # kInvalidFd THEN open_fds \cup {fd} ELSE open_fds

\* command_processor_->ProcessCommand(input_buffer, n_bytes_read, fd)
ProcessCommandCall(input_buffer, n_bytes_read, fd) ==
    /\ fatal = ""
    /\ pc = "idle"
    /\ \E r \in ProcessCommand(current_log_buffer_, input_buffer, n_bytes_read, fd) :
          /\ last' = [op |-> "ProcessCommand", input_buffer |-> input_buffer,
                      n_bytes_read |-> n_bytes_read, fd |-> fd, cleared |-> r.cleared]
          /\ current_log_buffer_' = r.mb
          /\ pc' = r.pc
          /\ dump' = r.dump
          /\ rewinder' = r.rewinder
          /\ ret' = r.ret
          /\ fatal' = r.fatal
          /\ clock_reads' = r.clock_reads
          /\ os_writes' = r.os_writes
          /\ close_calls' = r.closes
          /\ open_fds' = StillOpen(HeldOpen(fd), r.closes)
          /\ appended' = IF r.cleared THEN r.stored ELSE appended \o r.stored
          /\ n_consumed' = IF r.pc = "Dump" THEN 1 ELSE 0
          /\ prev_dump' = DumpSeen(prev_dump, r, input_buffer[1] = kDumpBuffers
                                                  /\ n_bytes_read >= kCommandSize)
    /\ UNCHANGED <<g_saved, tainted, n_clears>>

DoProcessCommand ==
    /\ \E command \in Commands, fd \in Fds :
          ProcessCommandCall(command.input_buffer, command.n_bytes_read, fd)
    /\ UNCHANGED <<twin, datagram>>

\* ProcessCommand goes once round the loop of Dump; Os::Write answers outcome
DumpLoopStep(outcome) ==
    /\ fatal = ""
    /\ pc = "Dump"
    /\ \E r \in {ReturnFrom(DumpLoopBody(current_log_buffer_, dump, rewinder, outcome,
                                        os_writes, close_calls), dump.wrapped_fd)} :
          /\ current_log_buffer_' = r.mb
          /\ pc' = r.pc
          /\ dump' = r.dump
          /\ rewinder' = r.rewinder
          /\ ret' = r.ret
          /\ fatal' = r.fatal
          /\ os_writes' = r.os_writes
          /\ close_calls' = r.closes
          /\ open_fds' = StillOpen(open_fds, r.closes)
          /\ n_consumed' = IF r.pc = "Dump" THEN n_consumed + 1 ELSE 0
          /\ prev_dump' = DumpSeen(prev_dump, r, TRUE)
    /\ UNCHANGED <<last, clock_reads, appended, g_saved, tainted, n_clears>>

DumpLoop ==
    /\ pc = "Dump"
    /\ \E outcome \in WriteOutcomes(IF CopyFromBufferOrDieCheck(dump.buflen, kTimestampHeaderSize)
                                     THEN Len(DumpLine(current_log_buffer_, dump)) ELSE 0) :
          DumpLoopStep(outcome)
    /\ UNCHANGED <<twin, datagram>>

Next == DoProcessCommand \/ DumpLoop

Spec == Init /\ [][Next]_vars

\* ProcessCommand runs on the daemon's only thread: once inside Dump's loop it
\* keeps executing until it returns or the process aborts
FairSpec == Spec /\ WF_vars(DumpLoop)

-----------------------------------------------------------------------------
(* PairSpec: two CommandProcessors of the same size are given write commands *)
(* side by side, the clocks answering both alike, and are dumped together   *)

\* buffer sizes of the pair: one largest record; a largest and a smallest,
\* which is also two smallest
PairSizes == {MaxRecordSize, MaxRecordSize + MinRecordSize}

\* write commands the processors accept, differing in bytes and in length
PairCommands ==
    {Command(input_buffer, n) : input_buffer \in {WriteCommand, BadLengthsCommand},
                                n \in {kCommandSize, kMaxMessageSize}}

\* the second processor after step r of its ProcessCommand; n_writes: write
\* commands given so far; same_lens: each of them was as long, once clamped, as
\* the one given to the first processor
TwinAfter(r, n_writes, same_lens) ==
    [exists |-> TRUE, mb |-> r.mb, pc |-> r.pc, dump |-> r.dump, rewinder |-> r.rewinder,
     ret |-> r.ret, fatal |-> r.fatal, os_writes |-> r.os_writes,
     n_writes |-> n_writes, same_lens |-> same_lens]

\* the timestamp header of the record a step stored, <<>> if it stored none
StoredHeader(stored) ==
    IF stored = <<>> THEN <<>> ELSE SubSeq(stored[1], 1, kTimestampHeaderSize)

PairInit ==
    /\ \E size \in PairSizes :
         /\ current_log_buffer_ = MessageBuffer(size, 0)
         /\ twin = TwinAfter(Return(MessageBuffer(size, 0), FALSE, <<>>, <<>>, <<>>, FALSE, <<>>),
                             0, TRUE)
    /\ fatal = ""
    /\ InitCommon

TwinIdle == twin.exists /\ twin.fatal = "" /\ twin.pc = "idle"

\* each processor is given a write command; the clocks answer both alike
PairWrite ==
    /\ TwinIdle
    /\ twin.n_writes < MaxPairWrites
    /\ UNCHANGED datagram
    /\ \E c1 \in PairCommands, c2 \in PairCommands :
          /\ ProcessCommandCall(c1.input_buffer, c1.n_bytes_read, kInvalidFd)
          /\ \E r2 \in ProcessCommand(twin.mb, c2.input_buffer, c2.n_bytes_read, kInvalidFd) :
                /\ StoredHeader(r2.stored)
                      = StoredHeader(IF last'.cleared THEN appended'
                                     ELSE SubSeq(appended', Len(appended) + 1, Len(appended')))
                /\ twin' = TwinAfter(r2, twin.n_writes + 1,
                                     twin.same_lens
                                     /\ CommandLen(c1.n_bytes_read) = CommandLen(c2.n_bytes_read))

\* each processor is given a dump command
PairDump ==
    /\ TwinIdle
    /\ UNCHANGED datagram
    /\ ProcessCommandCall(DumpCommand, kCommandSize, kFakeFd)
    /\ \E r2 \in ProcessCommand(twin.mb, DumpCommand, kCommandSize, kFakeFd) :
          twin' = TwinAfter(r2, twin.n_writes, twin.same_lens)

\* the dumps go once round their loops, Os::Write answering both alike; a dump
\* that has returned waits for the other
PairDumpLoop ==
    /\ twin.exists /\ twin.fatal = "" /\ fatal = ""
    /\ pc = "Dump" \/ twin.pc = "Dump"
    /\ UNCHANGED datagram
    /\ \E err \in {0, EINTR, EBADF} :
          /\ IF pc = "Dump"
             THEN \E outcome \in WriteOutcomes(Len(DumpLine(current_log_buffer_, dump))) :
                     outcome.err = err /\ DumpLoopStep(outcome)
             ELSE UNCHANGED <<current_log_buffer_, fatal, rewinder, pc, last, ret, dump,
                              clock_reads, os_writes, close_calls, open_fds, appended,
                              n_consumed, g_saved, tainted, n_clears, prev_dump>>
          /\ IF twin.pc = "Dump"
             THEN \E outcome \in WriteOutcomes(Len(DumpLine(twin.mb, twin.dump))) :
                     /\ outcome.err = err
                     /\ twin' = TwinAfter(ReturnFrom(DumpLoopBody(twin.mb, twin.dump, twin.rewinder,
                                                                  outcome, twin.os_writes, <<>>),
                                                     twin.dump.wrapped_fd),
                                          twin.n_writes, twin.same_lens)
             ELSE UNCHANGED twin

PairNext == PairWrite \/ PairDump \/ PairDumpLoop

PairSpec == PairInit /\ [][PairNext]_vars

-----------------------------------------------------------------------------
(* OsSpec: a client calls the methods of Os; the RawOs underneath answers *)

kMaxNanoSeconds == 999999999

\* the bound of the clamp of tv_sec: the smaller of the largest uint32_t and the
\* largest time_t, for a time_t of 32 bits
kMaxSeconds == 2147483647

\* SAFELY_CLAMP(SRC, uint32_t, MIN, MAX) with 0 <= MIN and MAX <= 2^31 - 1: the
\* static_cast<uint32_t> of the last branch leaves such a value as it is
SafelyClampU32(input, MinV, MaxV) ==
    IF input < MinV THEN MinV
    ELSE IF input > MaxV THEN MaxV
    ELSE input

\* GetTimestamp that clamps an out-of-range tv_nsec instead of checking it
GetTimestamp_ClampsOnly(failed, now_timespec) ==
    IF failed # 0
    THEN [now_timestamp |-> Timestamp(0, 0), fatal |-> "LOG(FATAL) Unexpected error"]
    ELSE [now_timestamp |->
             Timestamp(SafelyClampU32(now_timespec.tv_sec, 0, kMaxSeconds),
                       SafelyClampU32(now_timespec.tv_nsec, 0, kMaxNanoSeconds)),
          fatal |-> ""]

\* Os::GetTimestamp; failed and now_timespec are what RawOs::ClockGettime answers:
\* [now_timestamp, fatal]
GetTimestamp(failed, now_timespec) ==
    IF failed # 0
    THEN [now_timestamp |-> Timestamp(0, 0), fatal |-> "LOG(FATAL) Unexpected error"]
    ELSE IF ~(now_timespec.tv_nsec <= kMaxNanoSeconds)
    THEN [now_timestamp |-> Timestamp(0, 0),
          fatal |-> "CHECK(now_timespec.tv_nsec <= kMaxNanoSeconds)"]
    ELSE [now_timestamp |->
             Timestamp(SafelyClampU32(now_timespec.tv_sec, 0, kMaxSeconds),
                       SafelyClampU32(now_timespec.tv_nsec, 0, kMaxNanoSeconds)),
          fatal |-> ""]

\* what ClockGettime may answer: success or -1; seconds and nanoseconds below,
\* at and above the ends of their ranges
ClockGettimeResults == {0, -1}

TvSecs == {-1, 0, 1, 65536, kMaxSeconds}

TvNsecs == {-1, 0, 2, 999, kMaxNanoSeconds, kMaxNanoSeconds + 1, 2147483647}

\* the daemon is at rest while the client of Os calls it
OsInit ==
    /\ current_log_buffer_ = MessageBuffer(MinRecordSize, 0)
    /\ fatal = ""
    /\ InitAlone

OsVarsUnchanged ==
    UNCHANGED <<current_log_buffer_, rewinder, pc, dump, clock_reads, os_writes, close_calls,
                open_fds, appended, n_consumed, g_saved, tainted, n_clears, prev_dump, twin,
                datagram>>

\* os_->GetTimestamp(clock_id)
GetTimestampCall(clock_id, failed, tv_sec, tv_nsec) ==
    /\ fatal = ""
    /\ \E r \in {GetTimestamp(failed, [tv_sec |-> tv_sec, tv_nsec |-> tv_nsec])} :
          /\ last' = [op |-> "GetTimestamp", clock_id |-> clock_id, failed |-> failed,
                      tv_sec |-> tv_sec, tv_nsec |-> tv_nsec]
          /\ ret' = r.now_timestamp
          /\ fatal' = r.fatal
    /\ OsVarsUnchanged

DoGetTimestamp ==
    \E clock_id \in {Clocks[1], Clocks[2], Clocks[3]}, failed \in ClockGettimeResults,
       tv_sec \in TvSecs, tv_nsec \in TvNsecs :
          GetTimestampCall(clock_id, failed, tv_sec, tv_nsec)

\* an integer wider than the checker's: hi * 2^16 + lo, with 0 <= lo < 2^16
Wide(hi, lo) == [hi |-> hi, lo |-> lo]

WideLess(a, b) == a.hi < b.hi \/ (a.hi = b.hi /\ a.lo < b.lo)

\* GetMaxVal<uint32_t>(), which is also min(GetMaxVal<uint32_t>(),
\* GetMaxVal<time_t>()) where time_t is 64 bits wide
kMaxUint32 == Wide(U16Mod - 1, U16Mod - 1)

\* a conversion to uint32_t that keeps the low 32 bits, as static_cast does
SafelyClampWide_Casts(input, MinV, MaxV) == Wide(input.hi % U16Mod, input.lo)

\* SAFELY_CLAMP(SRC, uint32_t, MIN, MAX) of a 64-bit SRC, 0 <= MIN < MAX <= 2^32 - 1
SafelyClampWide(input, MinV, MaxV) ==
    IF WideLess(input, MinV) THEN MinV
    ELSE IF WideLess(MaxV, input) THEN MaxV
    ELSE Wide(input.hi % U16Mod, input.lo)

\* Os::GetTimestamp where time_t is 64 bits wide; tv_sec and secs are Wide
GetTimestampWide(failed, now_timespec) ==
    IF failed # 0
    THEN [now_timestamp |-> Timestamp(Wide(0, 0), 0), fatal |-> "LOG(FATAL) Unexpected error"]
    ELSE IF ~(now_timespec.tv_nsec <= kMaxNanoSeconds)
    THEN [now_timestamp |-> Timestamp(Wide(0, 0), 0),
          fatal |-> "CHECK(now_timespec.tv_nsec <= kMaxNanoSeconds)"]
    ELSE [now_timestamp |->
             Timestamp(SafelyClampWide(now_timespec.tv_sec, Wide(0, 0), kMaxUint32),
                       SafelyClampU32(now_timespec.tv_nsec, 0, kMaxNanoSeconds)),
          fatal |-> ""]

\* seconds of a 64-bit time_t: -2^32, -1, 0, 1, 2^31 - 1, 2^31, 2^32 - 1, 2^32,
\* 2^32 + 1, 2^46
TvSecsWide ==
    {Wide(-U16Mod, 0), Wide(-1, U16Mod - 1), Wide(0, 0), Wide(0, 1),
     Wide((U16Mod \div 2) - 1, U16Mod - 1), Wide(U16Mod \div 2, 0),
     Wide(U16Mod - 1, U16Mod - 1), Wide(U16Mod, 0), Wide(U16Mod, 1), Wide(SizeTMod, 0)}

\* os_->GetTimestamp(clock_id) where time_t is 64 bits wide
GetTimestampWideCall(clock_id, failed, tv_sec, tv_nsec) ==
    /\ fatal = ""
    /\ \E r \in {GetTimestampWide(failed, [tv_sec |-> tv_sec, tv_nsec |-> tv_nsec])} :
          /\ last' = [op |-> "GetTimestamp, time_t of 64 bits", clock_id |-> clock_id,
                      failed |-> failed, tv_sec |-> tv_sec, tv_nsec |-> tv_nsec]
          /\ ret' = r.now_timestamp
          /\ fatal' = r.fatal
    /\ OsVarsUnchanged

DoGetTimestampWide ==
    \E failed \in ClockGettimeResults, tv_sec \in TvSecsWide, tv_nsec \in TvNsecs :
          GetTimestampWideCall(Clocks[3], failed, tv_sec, tv_nsec)

\* GetMaxVal<ssize_t>(), size_t being SizeTMod wide
kMaxSsize == (SizeTMod \div 2) - 1

\* Os::Write that trusts the count the raw write reports
Write_TrustsRawCount(buflen, res, raw_errno) ==
    IF buflen > kMaxSsize
    THEN [n_written |-> 0, err |-> 0, fatal |-> "CHECK(buflen <= GetMaxVal<ssize_t>())"]
    ELSE IF res < 0
    THEN [n_written |-> 0, err |-> raw_errno, fatal |-> ""]
    ELSE [n_written |-> res, err |-> 0, fatal |-> ""]

\* Os::Write(fd, buf, buflen); res and raw_errno are what raw_os_->Write
\* returns and leaves in errno
Write(buflen, res, raw_errno) ==
    IF buflen > kMaxSsize
    THEN [n_written |-> 0, err |-> 0, fatal |-> "CHECK(buflen <= GetMaxVal<ssize_t>())"]
    ELSE IF res < 0
    THEN [n_written |-> 0, err |-> raw_errno, fatal |-> ""]
    ELSE IF res > buflen
    THEN [n_written |-> 0, err |-> 0, fatal |-> "CHECK(res <= buflen)"]
    ELSE [n_written |-> res, err |-> 0, fatal |-> ""]

\* buffer lengths of the tests: none, a buffer, the largest allowed, one
\* more, GetMaxVal<size_t>()
WriteBufLens == {0, 8, kMaxSsize, kMaxSsize + 1, SizeTMod - 1}

\* what the raw write may return: failure, nothing, part of the buffer, all of
\* it, one more than it holds, the largest count
RawWriteResults == {-1, 0, 4, 8, 9, kMaxSsize}

\* os_->Write(fd, buf, buflen)
WriteCall(fd, buflen, res, raw_errno) ==
    /\ fatal = ""
    /\ \E r \in {Write(buflen, res, raw_errno)} :
          /\ last' = [op |-> "Write", fd |-> fd, buflen |-> buflen, res |-> res,
                      raw_errno |-> raw_errno]
          /\ ret' = [n_written |-> r.n_written, err |-> r.err]
          /\ fatal' = r.fatal
    /\ OsVarsUnchanged

DoWrite ==
    \E buflen \in WriteBufLens, res \in RawWriteResults, raw_errno \in {EINTR, EBADF} :
          WriteCall(kFakeFd, buflen, res, raw_errno)

OsNext == DoGetTimestamp \/ DoGetTimestampWide \/ DoWrite

OsSpec == OsInit /\ [][OsNext]_vars

-----------------------------------------------------------------------------
(* ClampSpec: SAFELY_CLAMP applied to values of 8- and 16-bit integral types *)

\* integral types, by their least and greatest values
Int8 == [lo |-> -128, hi |-> 127]

Uint8 == [lo |-> 0, hi |-> 255]

Int16 == [lo |-> -32768, hi |-> 32767]

ClampTypes == {Int8, Uint8, Int16}

\* static_cast<T>(v): the value of T congruent to v modulo the number of values of T
StaticCast(T, v) == ((v - T.lo) % (T.hi - T.lo + 1)) + T.lo

\* the template is instantiated: MIN and MAX convert to both types without
\* narrowing, and the static_asserts on the range hold
ClampIsInstantiated(SrcType, DstType, MinV, MaxV) ==
    /\ SrcType.lo <= MinV /\ MaxV <= SrcType.hi
    /\ DstType.lo <= MinV /\ MaxV <= DstType.hi
    /\ MinV < MaxV

\* a SAFELY_CLAMP that is the static_cast it replaces
SAFELY_CLAMP_IsStaticCast(src, SrcType, DstType, MinV, MaxV) == StaticCast(DstType, src)

\* SAFELY_CLAMP(SRC, DST_TYPE, MIN, MAX), SrcType being decltype(SRC)
SAFELY_CLAMP(src, SrcType, DstType, MinV, MaxV) ==
    IF src < MinV THEN MinV
    ELSE IF src > MaxV THEN MaxV
    ELSE StaticCast(DstType, src)

\* range limits the clamps are instantiated with
ClampLimits == {-32768, -128, -1, 0, 2, 127, 128, 255, 256, 32767}

\* values around the limits of the types and of the ranges
ClampSamples ==
    {-32768, -32767, -257, -129, -128, -127, -2, -1, 0, 1, 2, 3, 126, 127, 128, 129,
     254, 255, 256, 257, 300, 32766, 32767}

ClampInputs(SrcType) == {v \in ClampSamples : SrcType.lo <= v /\ v <= SrcType.hi}

\* SAFELY_CLAMP(src, DstType, MinV, MaxV) is evaluated
DoSafelyClamp ==
    /\ fatal = ""
    /\ \E SrcType \in ClampTypes, DstType \in ClampTypes, MinV \in ClampLimits,
          MaxV \in ClampLimits :
          /\ ClampIsInstantiated(SrcType, DstType, MinV, MaxV)
          /\ \E src \in ClampInputs(SrcType) :
                /\ last' = [op |-> "SAFELY_CLAMP", src |-> src, SrcType |-> SrcType,
                            DstType |-> DstType, MinV |-> MinV, MaxV |-> MaxV]
                /\ ret' = SAFELY_CLAMP(src, SrcType, DstType, MinV, MaxV)
    /\ UNCHANGED fatal
    /\ OsVarsUnchanged

ClampNext == DoSafelyClamp

ClampSpec == OsInit /\ [][ClampNext]_vars

-----------------------------------------------------------------------------
(* MainSpec: MainLoop::RunOnce receives datagrams and hands them to the     *)
(* CommandProcessor                                                         *)

\* Os::ReceiveDatagram(fd, buf, buflen); res and raw_errno are what
\* raw_os_->Recv(fd, buf, buflen, MSG_TRUNC) returns and leaves in errno: res is
\* the length of the datagram, which may exceed buflen
ReceiveDatagram(buflen, res, raw_errno) ==
    IF buflen > kMaxSsize
    THEN [datagram_len |-> 0, err |-> 0, fatal |-> "CHECK(buflen <= GetMaxVal<ssize_t>())"]
    ELSE IF res < 0
    THEN [datagram_len |-> 0, err |-> raw_errno, fatal |-> ""]
    ELSE [datagram_len |-> res, err |-> 0, fatal |-> ""]

\* RunOnce passing on the length of the datagram as received
ClampDatagramLen_Unclamped(datagram_len) == datagram_len

\* if (datagram_len > protocol::kMaxMessageSize) datagram_len = protocol::kMaxMessageSize
ClampDatagramLen(datagram_len) ==
    IF datagram_len > kMaxMessageSize THEN kMaxMessageSize ELSE datagram_len

\* input_buf after a datagram of res bytes, the first bytes of sent, has been
\* received into it: the bytes not received hold what they held, junk
InputBuf(sent, res, junk) ==
    [i \in 1..kMaxMessageSize |-> IF i <= res THEN sent[i] ELSE junk]

\* what clients send: a write command, a dump command, a command with an
\* opcode the protocol does not define
Sent == {WriteCommand, DumpCommand, UnknownCommand}

\* what Recv returns: an error; the length of a datagram that is empty, a bare
\* command header, the largest message, one byte more
RecvResults == {-1, 0, kCommandSize, kMaxMessageSize, kMaxMessageSize + 1}

\* processors a MainLoop is built with: they hold any record
MainSizes == {size \in ProcSizes : size >= MaxRecordSize}

MainInit ==
    /\ \E size \in MainSizes :
         /\ current_log_buffer_ = MessageBuffer(size, 0)
         /\ fatal = ""
    /\ InitAlone

\* MainLoop::RunOnce(), up to its return or to the first test of Dump's loop
\* condition
RunOnce(sent, res, raw_errno, junk) ==
    /\ fatal = ""
    /\ pc = "idle"
    /\ \E r \in {ReceiveDatagram(kMaxMessageSize, res, raw_errno)} :
          /\ datagram' = [datagram_len |-> r.datagram_len, err |-> r.err]
          /\ IF r.fatal # ""
             THEN /\ fatal' = r.fatal
                  /\ last' = [op |-> "RunOnce"]
                  /\ UNCHANGED <<current_log_buffer_, rewinder, pc, ret, dump, clock_reads,
                                 os_writes, close_calls, open_fds, appended, n_consumed,
                                 g_saved, tainted, n_clears, prev_dump>>
             ELSE IF r.err # 0
             THEN /\ last' = [op |-> "RunOnce"]
                  /\ UNCHANGED <<current_log_buffer_, fatal, rewinder, pc, ret, dump,
                                 clock_reads, os_writes, close_calls, open_fds, appended,
                                 n_consumed, g_saved, tainted, n_clears, prev_dump>>
             ELSE ProcessCommandCall(InputBuf(sent, r.datagram_len, junk),
                                     ClampDatagramLen(r.datagram_len), kInvalidFd)
    /\ UNCHANGED twin

DoRunOnce ==
    \E res \in RecvResults :
       IF res < 0
       THEN \E raw_errno \in {EINTR, EBADF} : RunOnce(DumpCommand, res, raw_errno, 0)
       ELSE \E sent \in Sent, junk \in Fills : RunOnce(sent, res, 0, junk)

MainNext == DoRunOnce \/ DumpLoop

MainSpec == MainInit /\ [][MainNext]_vars

-----------------------------------------------------------------------------
(* Reading a buffer state: what the claims are stated with *)

Constructed == ConstructorCheck(current_log_buffer_.capacity_)

\* the admission rule as the specification words it, in unbounded integers
Admits(mb, L) ==
    /\ mb.capacity_ - mb.write_pos_ >= 2
    /\ mb.capacity_ - mb.write_pos_ - 2 >= L

\* the payloads successive ConsumeNextMessage calls hand out from mb until one
\* returns (nullptr, 0); <<-1>> marks a failed CHECK or a loop that does not end
RECURSIVE Drain(_, _)
Drain(mb, fuel) ==
    IF fuel = 0 THEN << <<-1>> >>
    ELSE LET r == ConsumeNextMessage(mb)
         IN IF r.fatal # "" THEN << <<-1>> >>
            ELSE IF r.buf = NullPtr THEN <<>>
            ELSE << View(r.mb, r.buf, r.len) >> \o Drain(r.mb, fuel - 1)

Readable(mb) == Drain(mb, mb.capacity_ + 1)

RecordLenAt(mb, pos) == U16FromBytes(mb.data_[pos + 1], mb.data_[pos + 2])

\* the offsets a reader starting at pos stops at, following the length headers,
\* up to the first one at or beyond the write position
RECURSIVE BoundariesFrom(_, _)
BoundariesFrom(mb, pos) ==
    IF pos >= mb.write_pos_ THEN {pos}
    ELSE IF pos + kHeaderSize > mb.write_pos_ THEN {pos, mb.write_pos_ + 1}
    ELSE {pos} \cup BoundariesFrom(mb, pos + kHeaderSize + RecordLenAt(mb, pos))

\* the bytes in [pos, write_pos_) are a concatenation of complete records
WellFramed(mb, pos) ==
    LET B == BoundariesFrom(mb, pos)
    IN mb.write_pos_ \in B /\ \A b \in B : b <= mb.write_pos_

ConsumeChecks ==
    {"CHECK(header_start + sizeof(header) <= data_.get() + capacity_)",
     "CHECK(read_pos_ <= capacity_)"}

-----------------------------------------------------------------------------
(* Claims about the MessageBuffer, checked under BufSpec *)

\* C1: Append(msg, L) with L >= 1 returns true, and CanFitNow(L) is true,
\* exactly when C - w >= 2 and C - w - 2 >= L; on a fresh buffer L = 1 and
\* L = C - 2 are admitted and L = C - 1 is rejected.
C1_CapacityAdmission ==
    [][\A seed \in MsgSeeds, L \in MsgLens \ {0} :
         AppendCall(seed, L) =>
            /\ ret'.val = Admits(current_log_buffer_, L)
            /\ CanFitNow(current_log_buffer_, L) = Admits(current_log_buffer_, L)
            /\ CanFitNow(current_log_buffer_, U16Mod - 1)
                  = Admits(current_log_buffer_, U16Mod - 1)
            /\ (current_log_buffer_.write_pos_ = 0 /\ L = 1 => ret'.val = TRUE)
            /\ (current_log_buffer_.write_pos_ = 0 /\ L = current_log_buffer_.capacity_ - 2
                  => ret'.val = TRUE)
            /\ (current_log_buffer_.write_pos_ = 0 /\ L = current_log_buffer_.capacity_ - 1
                  => ret'.val = FALSE)]_vars

\* a fresh buffer took a message of exactly C - 2 bytes
C1_Witness ==
    /\ last.op = "Append" /\ ret.val = TRUE /\ n_clears = 0
    /\ Len(appended) = 1
    /\ Len(appended[1]) = current_log_buffer_.capacity_ - 2
    /\ current_log_buffer_.write_pos_ = current_log_buffer_.capacity_

\* C2: the messages ConsumeNextMessage hands out are the appended ones, in
\* append order, each with its length and bytes, and after the last one the
\* call returns (nullptr, 0).
C2_FifoOrder ==
    (fatal = "" /\ ~tainted) =>
       /\ Readable(current_log_buffer_) = SubSeq(appended, n_consumed + 1, Len(appended))
       /\ (last.op = "ConsumeNextMessage" /\ ret.buf = NullPtr) =>
             (ret.len = 0 /\ n_consumed = Len(appended))
       /\ (last.op = "ConsumeNextMessage" /\ ret.buf # NullPtr) =>
             /\ n_consumed \in 1..Len(appended)
             /\ ret.len = Len(appended[n_consumed])
             /\ View(current_log_buffer_, ret.buf, ret.len) = appended[n_consumed]

\* the second of two different messages has just been handed out
C2_Witness ==
    /\ last.op = "ConsumeNextMessage" /\ ret.buf # NullPtr
    /\ n_consumed = 2 /\ Len(appended) = 2
    /\ appended[1] # appended[2]
    /\ View(current_log_buffer_, ret.buf, ret.len) = appended[2]

\* C3: an Append that returns false leaves the write position, the read
\* position and every stored byte as they were, so the same records are
\* readable afterwards.
C3_RejectedAppendChangesNothing ==
    [][\A seed \in MsgSeeds, L \in MsgLens \ {0} :
         (AppendCall(seed, L) /\ ret'.val = FALSE) =>
            /\ current_log_buffer_' = current_log_buffer_
            /\ Readable(current_log_buffer_') = Readable(current_log_buffer_)]_vars

\* an Append was rejected by a buffer that holds a record and has room for a shorter one
C3_Witness ==
    /\ last.op = "Append" /\ ret.val = FALSE /\ fatal = ""
    /\ Len(appended) >= 1
    /\ CanFitNow(current_log_buffer_, 1)

CursorsInOrder ==
    /\ 0 <= current_log_buffer_.read_pos_
    /\ current_log_buffer_.read_pos_ <= current_log_buffer_.write_pos_
    /\ current_log_buffer_.write_pos_ <= current_log_buffer_.capacity_

RecordBoundaries ==
    /\ WellFramed(current_log_buffer_, 0)
    /\ current_log_buffer_.read_pos_ \in BoundariesFrom(current_log_buffer_, 0)
    /\ WellFramed(current_log_buffer_, current_log_buffer_.read_pos_)
    /\ fatal \notin ConsumeChecks
    /\ (last.op = "ConsumeNextMessage" /\ ret.buf # NullPtr) =>
          /\ (ret.buf - kHeaderSize) \in BoundariesFrom(current_log_buffer_, 0)
          /\ current_log_buffer_.read_pos_ = ret.buf + ret.len

-----------------------------------------------------------------------------
(* Claims about the CommandProcessor (Spec) *)

\* a step that is a call of ProcessCommand: last' holds its arguments
Called == pc = "idle" /\ fatal = "" /\ last'.op = "ProcessCommand"

IsWrite(input_buffer) == input_buffer[1] = kWriteAsciiMessage

IsDump(input_buffer) == input_buffer[1] = kDumpBuffers

\* size of the composite stored for a command of n bytes: the timestamp header
\* and the command bytes, at most kMaxMessageSize of them
CompositeSize(n) ==
    kTimestampHeaderSize + (IF n > kMaxMessageSize THEN kMaxMessageSize ELSE n)

\* an empty store of this capacity admits a record of L bytes
AdmitsWhenEmpty(mb, L) ==
    mb.capacity_ >= kHeaderSize /\ mb.capacity_ - kHeaderSize >= L

\* rec is a composite of the first bytes of input_buffer under some answer of the clocks
IsCompositeOf(rec, input_buffer, n) ==
    /\ Len(rec) = CompositeSize(n)
    /\ \E os_times \in OsTimes :
          SubSeq(rec, 1, kTimestampHeaderSize) = TimestampHeaderBytes(ReadTimestamps(os_times))
    /\ \A i \in 1..(Len(rec) - kTimestampHeaderSize) :
          rec[kTimestampHeaderSize + i] = input_buffer[i]

\* a call with a write command that carries at least a command header
WriteCalled ==
    /\ Called
    /\ IsWrite(last'.input_buffer)
    /\ last'.n_bytes_read >= kCommandSize

\* C6: a write command whose composite does not fit in the store now but fits
\* in an empty store clears the store and stores the composite: right after
\* the call the store holds exactly one record, the new composite, written at
\* offset 0, and the call has returned true.
C6_EvictionOnOverflow ==
    [][( /\ WriteCalled
         /\ ~Admits(current_log_buffer_, CompositeSize(last'.n_bytes_read))
         /\ AdmitsWhenEmpty(current_log_buffer_, CompositeSize(last'.n_bytes_read)) )
       => /\ fatal' = ""
          /\ ret'.val = TRUE
          /\ current_log_buffer_'.read_pos_ = 0
          /\ current_log_buffer_'.write_pos_ = kHeaderSize + CompositeSize(last'.n_bytes_read)
          /\ Len(Readable(current_log_buffer_')) = 1
          /\ IsCompositeOf(Readable(current_log_buffer_')[1], last'.input_buffer,
                           last'.n_bytes_read)
    ]_vars

\* a write has just evicted two records: the store now holds one, the new one
C6_Witness ==
    /\ last.op = "ProcessCommand"
    /\ IsWrite(last.input_buffer)
    /\ last.cleared
    /\ ret.val = TRUE
    /\ fatal = ""
    /\ Len(Readable(current_log_buffer_)) = 1
    /\ current_log_buffer_.capacity_ = MaxRecordSize + MinRecordSize
    /\ current_log_buffer_.write_pos_ = MaxRecordSize

\* C7 as stated: in every reachable state a write command with at least a
\* command header returns true.
C7_WriteAlwaysSucceeds_AsStated ==
    [][WriteCalled => (fatal' = "" /\ ret'.val = TRUE)]_vars

\* C7: a write command with at least a command header returns true whenever an
\* empty store of this capacity admits its composite, whatever lengths the
\* command declares and however full the store is; when no empty store admits
\* the composite the process aborts. Such a command never returns false.
C7_WriteAlwaysSucceeds ==
    [][WriteCalled
       => IF AdmitsWhenEmpty(current_log_buffer_, CompositeSize(last'.n_bytes_read))
          THEN fatal' = "" /\ ret'.val = TRUE
          ELSE fatal' = "CHECK(current_log_buffer_.CanFitEver(total_size))"
    ]_vars

\* a write declaring lengths beyond its bytes has returned true and is stored
\* behind an earlier record
C7_Witness ==
    /\ last.op = "ProcessCommand"
    /\ last.input_buffer = BadLengthsCommand
    /\ last.n_bytes_read >= kCommandSize
    /\ ret.val = TRUE
    /\ fatal = ""
    /\ ~last.cleared
    /\ Len(Readable(current_log_buffer_)) = 2

\* C8: ProcessCommand with fewer bytes than a command header returns false,
\* leaves the store (cursors and bytes) as it was, reads no clock and writes
\* nothing to the fd.
C8_ShortCommandRejected ==
    [][(Called /\ last'.n_bytes_read < kCommandSize)
       => /\ fatal' = ""
          /\ pc' = "idle"
          /\ ret'.val = FALSE
          /\ current_log_buffer_' = current_log_buffer_
          /\ clock_reads' = <<>>
          /\ os_writes' = <<>>
    ]_vars

\* a short command has been rejected while the store holds records
C8_Witness ==
    /\ last.op = "ProcessCommand"
    /\ last.n_bytes_read = kCommandSize - 1
    /\ ret.val = FALSE
    /\ fatal = ""
    /\ Len(Readable(current_log_buffer_)) >= 1
    /\ clock_reads = <<>>
    /\ os_writes = <<>>

\* C9 as stated: ProcessCommand on at least a command header whose opcode is
\* neither write-ASCII-message nor dump-buffers returns false, leaves the store
\* unchanged and does not crash.
C9_UnknownOpcodeRejected ==
    [][( /\ Called
         /\ last'.n_bytes_read >= kCommandSize
         /\ ~IsWrite(last'.input_buffer)
         /\ ~IsDump(last'.input_buffer) )
       => /\ fatal' = ""
          /\ ret'.val = FALSE
          /\ current_log_buffer_' = current_log_buffer_
    ]_vars

\* a command with an undefined opcode has returned true
C9_Witness ==
    /\ last.op = "ProcessCommand"
    /\ last.input_buffer = UnknownCommand
    /\ last.n_bytes_read >= kCommandSize
    /\ fatal = ""
    /\ ret.val = TRUE

\* the exit paths C10 names: input too short, write stored, dump done or aborted
NamedExitPath(input_buffer, n_bytes_read) ==
    n_bytes_read < kCommandSize \/ IsWrite(input_buffer) \/ IsDump(input_buffer)

\* C10: when ProcessCommand returns (input too short, write stored, dump
\* succeeded, dump aborted on a write error), a valid fd passed to it has been
\* closed exactly once and is open no more, whatever the result; it is not
\* closed while the dump is still writing to it.
C10_FdClosedExactlyOnce ==
    [][( /\ fatal = ""
         /\ fatal' = ""
         /\ last'.op = "ProcessCommand"
         /\ NamedExitPath(last'.input_buffer, last'.n_bytes_read)
         /\ last'.fd # kInvalidFd )
       => IF pc' = "idle"
          THEN close_calls' = <<last'.fd>> /\ last'.fd \notin open_fds'
          ELSE close_calls' = <<>> /\ last'.fd \in open_fds' /\ dump'.dump_fd = last'.fd
    ]_vars

\* a dump to a valid fd has been aborted by a write error, and the fd is closed
C10_Witness ==
    /\ last.op = "ProcessCommand"
    /\ IsDump(last.input_buffer)
    /\ last.fd = kFakeFd
    /\ pc = "idle"
    /\ fatal = ""
    /\ ret.val = FALSE
    /\ Len(os_writes) >= 1
    /\ os_writes[Len(os_writes)].err = EBADF
    /\ close_calls = <<kFakeFd>>
    /\ kFakeFd \notin open_fds

\* a call with a dump command that carries at least a command header
DumpCalled ==
    /\ Called
    /\ IsDump(last'.input_buffer)
    /\ last'.n_bytes_read >= kCommandSize

\* the store apart from its read position
StoredBytes(mb) ==
    [data_ |-> mb.data_, capacity_ |-> mb.capacity_, write_pos_ |-> mb.write_pos_]

\* C11: a dump-buffers command does not change the store: its bytes and write
\* position are the same at every step of the dump, the read position saved on
\* entry is the one before the dump, and when the command returns, with true or
\* with false after a write error, the read position is that saved one again
\* and every stored record is readable.
C11_DumpIsNonDestructive ==
    /\ [][(DumpCalled /\ fatal' = "")
          => /\ StoredBytes(current_log_buffer_') = StoredBytes(current_log_buffer_)
             /\ IF pc' = "idle"
                THEN current_log_buffer_'.read_pos_ = current_log_buffer_.read_pos_
                ELSE rewinder' = current_log_buffer_.read_pos_
       ]_vars
    /\ [][(pc = "Dump" /\ fatal' = "")
          => /\ StoredBytes(current_log_buffer_') = StoredBytes(current_log_buffer_)
             /\ IF pc' = "idle"
                THEN current_log_buffer_'.read_pos_ = rewinder
                ELSE rewinder' = rewinder
       ]_vars
    /\ []((pc = "idle" /\ fatal = "" /\ last.op = "ProcessCommand")
          => Readable(current_log_buffer_) = appended)

\* a dump of two records was cut short by a write error on the second; both
\* records are readable again
C11_Witness ==
    /\ last.op = "ProcessCommand"
    /\ IsDump(last.input_buffer)
    /\ pc = "idle"
    /\ fatal = ""
    /\ ret.val = FALSE
    /\ Len(os_writes) = 2
    /\ current_log_buffer_.read_pos_ = 0
    /\ Len(Readable(current_log_buffer_)) = 2

\* a step on which a dump-buffers command returns
DumpReturns ==
    /\ fatal = ""
    /\ fatal' = ""
    /\ pc' = "idle"
    /\ (DumpCalled \/ pc = "Dump")

\* C12: when a dump-buffers command on a non-empty store returns with every
\* write having succeeded, it has returned true and has passed to Os::Write the
\* same sequence of lines as the previous such dump on the same store (no record
\* stored in between), also when a dump in between, or before both, failed on
\* a write error.
C12_DumpIdempotence ==
    [][(DumpReturns /\ appended # <<>> /\ AllWritten(os_writes'))
       => /\ ret'.val = TRUE
          /\ os_writes' # <<>>
          /\ (prev_dump.clean >= 1 => LinesOf(os_writes') = prev_dump.lines)
    ]_vars

\* two dumps of two records have succeeded on the same store, a third one
\* failed, and the last call was a successful dump
C12_Witness ==
    /\ last.op = "ProcessCommand"
    /\ IsDump(last.input_buffer)
    /\ pc = "idle"
    /\ fatal = ""
    /\ ret.val = TRUE
    /\ prev_dump.clean = 2
    /\ prev_dump.failed_since
    /\ Len(os_writes) = 2
    /\ AllWritten(os_writes)
    /\ LinesOf(os_writes) = prev_dump.lines

\* no Os::Write reported an error other than EINTR
NoUnrecoverableError(writes) ==
    \A i \in 1..Len(writes) : writes[i].err \in {0, EINTR}

\* the newline-terminated timestamp line of a stored record
LineOfRecord(rec) ==
    TimestampHeaderToString(TimestampHeaderFromBytes(SubSeq(rec, 1, kTimestampHeaderSize)))
        \o <<"\n">>

\* C13: when a dump-buffers command returns and no Os::Write has reported an
\* error other than EINTR, it has called Os::Write exactly once per stored
\* record, in the order the records were stored, the i-th call carrying the
\* line of the i-th record and the fd of the command, and it has returned true.
C13_DumpWritesEveryRecord ==
    [][(DumpReturns /\ NoUnrecoverableError(os_writes'))
       => /\ ret'.val = TRUE
          /\ Len(os_writes') = Len(appended)
          /\ \A i \in 1..Len(appended) :
                /\ os_writes'[i].buf = LineOfRecord(appended[i])
                /\ os_writes'[i].fd = last'.fd
    ]_vars

\* a dump of two records with different timestamps has returned true, its
\* first write having been interrupted
C13_Witness ==
    /\ last.op = "ProcessCommand"
    /\ IsDump(last.input_buffer)
    /\ pc = "idle"
    /\ fatal = ""
    /\ ret.val = TRUE
    /\ Len(appended) = 2
    /\ Len(os_writes) = 2
    /\ os_writes[1].err = EINTR
    /\ os_writes[2].err = 0
    /\ os_writes[1].buf # os_writes[2].buf

\* C14: once Os::Write has reported an error other than EINTR, Dump makes no
\* further Os::Write call: such an error is only ever the last write of a
\* dump, the loop is not entered again after it, and the dump-buffers command
\* returns false.
C14_DumpStopsAtFirstError ==
    /\ [](\A i \in 1..(Len(os_writes) - 1) : os_writes[i].err \in {0, EINTR})
    /\ []((pc = "Dump" /\ fatal = "") => NoUnrecoverableError(os_writes))
    /\ [][(DumpReturns /\ ~NoUnrecoverableError(os_writes')) => ret'.val = FALSE]_vars

\* a dump of two records has returned false after a single write, which failed
C14_Witness ==
    /\ last.op = "ProcessCommand"
    /\ IsDump(last.input_buffer)
    /\ pc = "idle"
    /\ fatal = ""
    /\ ret.val = FALSE
    /\ Len(appended) = 2
    /\ Len(os_writes) = 1
    /\ os_writes[1].err = EBADF

\* every Os::Write reported EINTR with only part of the bytes written
AllInterrupted(writes) ==
    \A i \in 1..Len(writes) :
       writes[i].err = EINTR /\ writes[i].n_written < Len(writes[i].buf)

\* C15: a dump always terminates, whatever Os::Write reports; and when every
\* Os::Write of a dump has reported EINTR with part of the bytes written, the
\* dump has attempted exactly one write per stored record, the i-th attempt
\* given the whole newline-terminated line of the i-th record (no line is
\* offered twice), and the command has returned true.
C15_DumpProgressUnderEintr ==
    /\ (pc = "Dump") ~> (pc = "idle")
    /\ [][(DumpReturns /\ AllInterrupted(os_writes'))
          => /\ ret'.val = TRUE
             /\ Len(os_writes') = Len(appended)
             /\ \A i \in 1..Len(appended) :
                   /\ os_writes'[i].buf = LineOfRecord(appended[i])
                   /\ os_writes'[i].buf[Len(os_writes'[i].buf)] = "\n"
       ]_vars

\* a dump of two records has returned true although both writes were interrupted
C15_Witness ==
    /\ last.op = "ProcessCommand"
    /\ IsDump(last.input_buffer)
    /\ pc = "idle"
    /\ fatal = ""
    /\ ret.val = TRUE
    /\ Len(appended) = 2
    /\ Len(os_writes) = 2
    /\ AllInterrupted(os_writes)

\* C16: a dump-buffers command on a store that holds no record returns true
\* from that very call, without entering the loop and without any Os::Write.
C16_DumpOfEmptyStore ==
    [][(DumpCalled /\ Readable(current_log_buffer_) = <<>>)
       => /\ pc' = "idle"
          /\ fatal' = ""
          /\ ret'.val = TRUE
          /\ os_writes' = <<>>
    ]_vars

\* a dump of a store no write has reached yet has returned true, leaving a
\* store that can hold records
C16_Witness ==
    /\ last.op = "ProcessCommand"
    /\ IsDump(last.input_buffer)
    /\ last.n_bytes_read >= kCommandSize
    /\ pc = "idle"
    /\ fatal = ""
    /\ ret.val = TRUE
    /\ os_writes = <<>>
    /\ appended = <<>>
    /\ current_log_buffer_.write_pos_ = 0
    /\ current_log_buffer_.capacity_ >= MinRecordSize

\* reading a line back: digits, the number a run of digits denotes, and the
\* runs of digits between the characters that are not digits
IsDigit(ch) == \E k \in 1..10 : DigitChars[k] = ch

DigitValue(ch) == (CHOOSE k \in 1..10 : DigitChars[k] = ch) - 1

RECURSIVE DecimalValue(_)
DecimalValue(str) ==
    IF str = <<>> THEN 0
    ELSE 10 * DecimalValue(SubSeq(str, 1, Len(str) - 1)) + DigitValue(str[Len(str)])

SeparatorsOf(line) == SelectSeq(line, LAMBDA ch : ~IsDigit(ch))

\* position of the k-th character of line that is not a digit; 0 for k = 0
SeparatorAt(line, k) ==
    IF k = 0 THEN 0
    ELSE CHOOSE p \in 1..Len(line) :
            /\ ~IsDigit(line[p])
            /\ Cardinality({i \in 1..p : ~IsDigit(line[i])}) = k

\* the digits before the k-th separator of line
Field(line, k) == SubSeq(line, SeparatorAt(line, k - 1) + 1, SeparatorAt(line, k) - 1)

\* str is v in decimal without padding
IsUnpaddedDecimal(str, v) ==
    /\ Len(str) >= 1
    /\ Len(str) > 1 => str[1] # "0"
    /\ DecimalValue(str) = v

\* str is v in decimal, in exactly six digits
IsSixDigits(str, v) == Len(str) = 6 /\ DecimalValue(str) = v

\* line is "s1.u1 s2.u2 s3.u3" and a newline for the times the three clocks answered
IsLineOf(line, os_times) ==
    /\ SeparatorsOf(line) = <<".", " ", ".", " ", ".", "\n">>
    /\ line[Len(line)] = "\n"
    /\ IsUnpaddedDecimal(Field(line, 1), os_times["CLOCK_MONOTONIC"].secs)
    /\ IsSixDigits(Field(line, 2), os_times["CLOCK_MONOTONIC"].nsecs \div 1000)
    /\ IsUnpaddedDecimal(Field(line, 3), os_times["CLOCK_BOOTTIME"].secs)
    /\ IsSixDigits(Field(line, 4), os_times["CLOCK_BOOTTIME"].nsecs \div 1000)
    /\ IsUnpaddedDecimal(Field(line, 5), os_times["CLOCK_REALTIME"].secs)
    /\ IsSixDigits(Field(line, 6), os_times["CLOCK_REALTIME"].nsecs \div 1000)

\* the record was stored while the clocks answered os_times
StoredAt(rec, os_times) ==
    SubSeq(rec, 1, kTimestampHeaderSize) = TimestampHeaderBytes(ReadTimestamps(os_times))

\* the clocks of ...OutputIncludesCorrectlyFormattedTimestamps and its line
ExampleTimes ==
    [c \in {"CLOCK_MONOTONIC", "CLOCK_BOOTTIME", "CLOCK_REALTIME"} |->
        IF c = "CLOCK_MONOTONIC" THEN Timestamp(0, 999)
        ELSE IF c = "CLOCK_BOOTTIME" THEN Timestamp(1, 1000)
        ELSE Timestamp(123456, 123456000)]

ExampleLine ==
    <<"0", ".", "0", "0", "0", "0", "0", "0", " ",
      "1", ".", "0", "0", "0", "0", "0", "1", " ",
      "1", "2", "3", "4", "5", "6", ".", "1", "2", "3", "4", "5", "6", "\n">>

\* C17: the i-th line a dump passes to Os::Write is, for the times the three
\* clocks answered when the i-th record was stored, the seconds of
\* CLOCK_MONOTONIC in unpadded decimal, '.', its nanoseconds divided by 1000
\* (rounded down) in exactly six digits, ' ', the same for CLOCK_BOOTTIME, ' ',
\* the same for CLOCK_REALTIME, and a newline; for (0,999), (1,1000),
\* (123456,123456000) it is "0.000000 1.000001 123456.123456\n".
C17_DumpLineFormat ==
    \A i \in 1..Len(os_writes) :
       /\ i <= Len(appended)
       /\ \E os_times \in OsTimes : StoredAt(appended[i], os_times)
       /\ \A os_times \in OsTimes :
             StoredAt(appended[i], os_times) => IsLineOf(os_writes[i].buf, os_times)
       /\ StoredAt(appended[i], ExampleTimes) => os_writes[i].buf = ExampleLine

\* a dump has written the line of the example and the line of a record whose
\* seconds have ten digits and whose microseconds are 999999
C17_Witness ==
    /\ fatal = ""
    /\ pc = "idle"
    /\ Len(os_writes) = 2
    /\ StoredAt(appended[1], ExampleTimes)
    /\ os_writes[1].buf = ExampleLine
    /\ ~StoredAt(appended[2], ExampleTimes)
    /\ Len(os_writes[2].buf) > Len(ExampleLine)

\* a call with a write command of more than kMaxMessageSize bytes
OversizedWriteCalled == WriteCalled /\ last'.n_bytes_read > kMaxMessageSize

\* the newest record of mb is the timestamp header followed by exactly the
\* first kMaxMessageSize bytes of input_buffer
HoldsClamped(mb, input_buffer) ==
    \E recs \in {Readable(mb)} :
       /\ recs # <<>>
       /\ Len(recs[Len(recs)]) = kTimestampHeaderSize + kMaxMessageSize
       /\ \A i \in 1..kMaxMessageSize :
             recs[Len(recs)][kTimestampHeaderSize + i] = input_buffer[i]

\* C18 as stated: whatever the capacity of the store
C18_OversizedWriteClamped_AsStated ==
    [][OversizedWriteCalled
       => /\ fatal' = ""
          /\ ret'.val = TRUE
          /\ HoldsClamped(current_log_buffer_', last'.input_buffer)
    ]_vars

\* C18: on a store whose capacity admits, when empty, a timestamp header with
\* kMaxMessageSize bytes, a write command of more than kMaxMessageSize bytes
\* returns true and the record stored for it has payload length
\* sizeof(TimestampHeader) + kMaxMessageSize, the header followed by the first
\* kMaxMessageSize bytes of the input and nothing more.
C18_OversizedWriteClamped ==
    [][(OversizedWriteCalled
        /\ AdmitsWhenEmpty(current_log_buffer_, kTimestampHeaderSize + kMaxMessageSize))
       => /\ fatal' = ""
          /\ ret'.val = TRUE
          /\ HoldsClamped(current_log_buffer_', last'.input_buffer)
          /\ Len(Readable(current_log_buffer_')) =
                IF last'.cleared THEN 1 ELSE Len(Readable(current_log_buffer_)) + 1
    ]_vars

\* an oversized write has returned true and its clamped record is in the store
C18_Witness ==
    /\ last.op = "ProcessCommand"
    /\ IsWrite(last.input_buffer)
    /\ last.n_bytes_read = kMaxMessageSize + 1
    /\ fatal = ""
    /\ ret.val = TRUE
    /\ HoldsClamped(current_log_buffer_, last.input_buffer)
    /\ Len(appended[Len(appended)]) = kTimestampHeaderSize + kMaxMessageSize

\* the inputs C19 names: too short, an opcode that is neither write nor dump,
\* a write of more than kMaxMessageSize bytes, a write the store has no room for
RecoverableInput(mb, input_buffer, n_bytes_read) ==
    \/ n_bytes_read < kCommandSize
    \/ (~IsWrite(input_buffer) /\ ~IsDump(input_buffer))
    \/ (IsWrite(input_buffer) /\ n_bytes_read > kMaxMessageSize)
    \/ (IsWrite(input_buffer) /\ ~Admits(mb, CompositeSize(n_bytes_read)))

\* C19: in every reachable state of a CommandProcessor built with any capacity
\* the MessageBuffer constructor accepts, ProcessCommand on a too-short input,
\* an unrecognised opcode, an oversized write or a write arriving at a full
\* store returns true or false and the process does not abort.
C19_RecoverableInputsNeverAbort ==
    [][(Called /\ RecoverableInput(current_log_buffer_, last'.input_buffer, last'.n_bytes_read))
       => /\ fatal' = ""
          /\ pc' = "idle"
          /\ ret'.val \in BOOLEAN
    ]_vars

\* the process has aborted inside ProcessCommand on an unrecognised opcode
C19_Witness ==
    /\ last.op = "ProcessCommand"
    /\ last.input_buffer = UnknownCommand
    /\ last.n_bytes_read >= kCommandSize
    /\ fatal = "control reached the end of ProcessCommand"
    /\ current_log_buffer_.capacity_ >= MaxRecordSize

\* a step that is buffer_.Append(message, 0)
AppendOfNothingCalled == \E seed \in MsgSeeds : AppendCall(seed, 0)

\* C20: Append with message_len = 0 aborts the process on CHECK(message_len)
\* in every state of the buffer, empty, partly filled, full or rewound; it
\* does not return, and it leaves the array and both positions as they were,
\* so that no record of length zero is stored.
C20_AppendOfNothingIsFatal ==
    /\ [][AppendOfNothingCalled
          => /\ fatal' = "CHECK(message_len)"
             /\ current_log_buffer_' = current_log_buffer_
             /\ appended' = appended
       ]_vars
    /\ [](\A i \in 1..Len(appended) : Len(appended[i]) > 0)

\* the process has aborted in an Append of nothing to a buffer that holds a
\* record and has no room for another
C20_Witness ==
    /\ last.op = "Append"
    /\ fatal = "CHECK(message_len)"
    /\ appended # <<>>
    /\ ~CanFitNow(current_log_buffer_, 1)

\* C21: constructing a MessageBuffer of size <= GetHeaderSize() (2) aborts the
\* process on the constructor's CHECK; a MessageBuffer that exists (the process
\* has not aborted in its constructor) has capacity > 2, and right after
\* construction its read and write positions are 0.
C21_ConstructionGuard ==
    /\ current_log_buffer_.capacity_ <= 2
          => (fatal = "CHECK(size > GetHeaderSize())" /\ last.op = "construct")
    /\ (fatal # "CHECK(size > GetHeaderSize())") => current_log_buffer_.capacity_ > 2
    /\ (last.op = "construct" /\ fatal = "")
          => /\ current_log_buffer_.read_pos_ = 0
             /\ current_log_buffer_.write_pos_ = 0
             /\ current_log_buffer_.capacity_ = Len(current_log_buffer_.data_)

\* the constructor has aborted for a size equal to the header size
C21_Witness ==
    /\ last.op = "construct"
    /\ current_log_buffer_.capacity_ = GetHeaderSize
    /\ fatal = "CHECK(size > GetHeaderSize())"

\* C22: an Append of L bytes that returns true moves the write position up by
\* exactly L + 2 and takes exactly L + 2 off the free size; it stays within
\* the array, changes neither the read position nor any byte stored before,
\* and the records readable afterwards are those readable before followed by
\* the new one, also when the Append uses up the last free byte; and a buffer
\* with fewer than 3 free bytes answers CanFitNow(1) with false.
C22_SpaceAccounting ==
    /\ [][\A seed \in MsgSeeds, L \in MsgLens \ {0} :
            (AppendCall(seed, L) /\ ret'.val = TRUE) =>
               /\ current_log_buffer_'.write_pos_ = current_log_buffer_.write_pos_ + L + 2
               /\ GetFreeSize(current_log_buffer_') = GetFreeSize(current_log_buffer_) - (L + 2)
               /\ GetFreeSize(current_log_buffer_') >= 0
               /\ current_log_buffer_'.capacity_ = current_log_buffer_.capacity_
               /\ Len(current_log_buffer_'.data_) = current_log_buffer_.capacity_
               /\ current_log_buffer_'.read_pos_ = current_log_buffer_.read_pos_
               /\ \A i \in 1..current_log_buffer_.write_pos_ :
                     current_log_buffer_'.data_[i] = current_log_buffer_.data_[i]
               /\ ~tainted => Readable(current_log_buffer_')
                                  = Readable(current_log_buffer_) \o <<Msg(seed, L)>>
       ]_vars
    /\ [](current_log_buffer_.write_pos_ <= current_log_buffer_.capacity_)
    /\ [](GetFreeSize(current_log_buffer_) < 3 => ~CanFitNow(current_log_buffer_, 1))

\* two Appends have filled the buffer to its last byte and both records are readable
C22_Witness ==
    /\ last.op = "Append"
    /\ ret.val = TRUE
    /\ fatal = ""
    /\ GetFreeSize(current_log_buffer_) = 0
    /\ Len(appended) = 2
    /\ Readable(current_log_buffer_) = appended
    /\ ~CanFitNow(current_log_buffer_, 1)

\* a step on which a write command returns true
WriteAccepted == WriteCalled /\ fatal' = "" /\ pc' = "idle" /\ ret'.val = TRUE

\* where the record of an accepted write starts in the array
RecordStart == IF last'.cleared THEN 0 ELSE current_log_buffer_.write_pos_

\* C23: the record stored for an accepted write command is the 24-byte
\* timestamp header, as the three clocks answered, followed by the first
\* min(n_bytes_read, kMaxMessageSize) bytes of the input, each at its place and
\* with its value; its length header states that size, and this is the record
\* read back last from the store.
C23_StoredPayloadIsRawInput ==
    [][WriteAccepted
       => /\ kTimestampHeaderSize = 24
          /\ RecordLenAt(current_log_buffer_', RecordStart) = CompositeSize(last'.n_bytes_read)
          /\ current_log_buffer_'.write_pos_
                = RecordStart + kHeaderSize + CompositeSize(last'.n_bytes_read)
          /\ SubSeq(current_log_buffer_'.data_, RecordStart + kHeaderSize + 1,
                    RecordStart + kHeaderSize + kTimestampHeaderSize)
                \in {TimestampHeaderBytes(ReadTimestamps(os_times)) : os_times \in OsTimes}
          /\ SubSeq(current_log_buffer_'.data_,
                    RecordStart + kHeaderSize + kTimestampHeaderSize + 1,
                    current_log_buffer_'.write_pos_)
                = SubSeq(last'.input_buffer, 1,
                         CompositeSize(last'.n_bytes_read) - kTimestampHeaderSize)
          /\ \E recs \in {Readable(current_log_buffer_')} :
                /\ recs # <<>>
                /\ IsCompositeOf(recs[Len(recs)], last'.input_buffer, last'.n_bytes_read)
    ]_vars

\* a write whose declared lengths disagree with its bytes is stored, byte for
\* byte, behind an earlier record
C23_Witness ==
    /\ last.op = "ProcessCommand"
    /\ last.input_buffer = BadLengthsCommand
    /\ last.n_bytes_read = kMaxMessageSize
    /\ fatal = ""
    /\ ret.val = TRUE
    /\ Len(appended) = 2
    /\ SubSeq(appended[2], kTimestampHeaderSize + 1, Len(appended[2]))
          = SubSeq(BadLengthsCommand, 1, kMaxMessageSize)
    /\ Readable(current_log_buffer_) = appended

\* a step that is a call of Os::GetTimestamp
GetTimestampCalled == fatal = "" /\ last'.op = "GetTimestamp"

\* C24: Os::GetTimestamp aborts when ClockGettime reports failure, and aborts
\* when it answers tv_nsec >= 1,000,000,000; otherwise it returns, and for
\* 0 <= tv_sec <= the largest second and 0 <= tv_nsec < 1,000,000,000 it
\* returns secs = tv_sec and nsecs = tv_nsec ((1, 2) comes back as (1, 2)).
C24_GetTimestamp ==
    [][GetTimestampCalled
       => /\ last'.failed # 0 => fatal' = "LOG(FATAL) Unexpected error"
          /\ (last'.failed = 0 /\ last'.tv_nsec >= 1000000000)
                => fatal' = "CHECK(now_timespec.tv_nsec <= kMaxNanoSeconds)"
          /\ (last'.failed = 0 /\ last'.tv_nsec < 1000000000)
                => /\ fatal' = ""
                   /\ ret'.secs \in 0..kMaxSeconds
                   /\ ret'.nsecs \in 0..999999999
                   /\ last'.tv_sec >= 0 => ret'.secs = last'.tv_sec
                   /\ last'.tv_nsec >= 0 => ret'.nsecs = last'.tv_nsec
          /\ (last'.failed = 0 /\ last'.tv_sec = 1 /\ last'.tv_nsec = 2)
                => ret' = Timestamp(1, 2)
    ]_vars

\* the largest time in range has come back as it was
C24_Witness ==
    /\ last.op = "GetTimestamp"
    /\ last.failed = 0
    /\ last.tv_sec = kMaxSeconds
    /\ last.tv_nsec = 999999999
    /\ fatal = ""
    /\ ret = Timestamp(kMaxSeconds, 999999999)

\* input lengths around the largest message and around the ends of uint16_t
\* and of size_t
LengthSamples ==
    {0, 1, kCommandSize, kMaxMessageSize - 1, kMaxMessageSize, kMaxMessageSize + 1,
     U16Mod - kTimestampHeaderSize - 1, U16Mod - kTimestampHeaderSize, U16Mod - 1, U16Mod,
     U16Mod + kCommandSize, SizeTMod - 1}

\* sizeof(TimestampHeader) + min(n, kMaxMessageSize), in unbounded integers
UnwrappedTotal(n) == kTimestampHeaderSize + (IF n < kMaxMessageSize THEN n ELSE kMaxMessageSize)

\* C25: for every input length the uint16_t total_size equals
\* sizeof(TimestampHeader) + min(n_bytes_read, kMaxMessageSize) as computed
\* without wrapping, which is below 2^16; and for every write command that
\* reaches the store, total_size is the number of bytes staged in the scratch
\* buffer and the length passed to Append, which Append writes into the
\* record's length header.
C25_TotalSizeFitsLengthField ==
    /\ [](/\ kTimestampHeaderSize + kMaxMessageSize < U16Mod
          /\ \A n \in LengthSamples :
                TotalSize(n) = UnwrappedTotal(n) /\ UnwrappedTotal(n) < U16Mod)
    /\ [][(WriteCalled /\ fatal' = "")
          => /\ TotalSize(last'.n_bytes_read) = UnwrappedTotal(last'.n_bytes_read)
             /\ appended' # <<>>
             /\ Len(appended'[Len(appended')]) = TotalSize(last'.n_bytes_read)
             /\ RecordLenAt(current_log_buffer_', RecordStart) = TotalSize(last'.n_bytes_read)
             /\ current_log_buffer_'.write_pos_
                   = RecordStart + kHeaderSize + TotalSize(last'.n_bytes_read)
       ]_vars

\* a write command whose length is more than a uint16_t counts has been stored
\* with the largest message's length in its header
C25_Witness ==
    /\ last.op = "ProcessCommand"
    /\ IsWrite(last.input_buffer)
    /\ last.n_bytes_read = U16Mod + kCommandSize
    /\ fatal = ""
    /\ ret.val = TRUE
    /\ ~last.cleared
    /\ Len(appended) = 2
    /\ Len(appended[2]) = kTimestampHeaderSize + kMaxMessageSize
    /\ RecordLenAt(current_log_buffer_, kHeaderSize + Len(appended[1]))
          = kTimestampHeaderSize + kMaxMessageSize

-----------------------------------------------------------------------------
(* Claims about a pair of CommandProcessors (PairSpec) *)

\* both processors have returned from a dump-buffers command
BothDumped ==
    /\ twin.exists
    /\ last.op = "ProcessCommand"
    /\ last.input_buffer = DumpCommand
    /\ pc = "idle" /\ twin.pc = "idle"
    /\ fatal = "" /\ twin.fatal = ""

\* C26 as stated: two processors that accepted write-message commands with the
\* same sequence of captured timestamps but different command bytes present
\* identical line sequences to Os::Write when dumped.
C26_DumpIndependentOfPayload_AsStated ==
    BothDumped => LinesOf(os_writes) = LinesOf(twin.os_writes)

\* C26: two processors of the same size that accepted write-message commands
\* with the same sequence of captured timestamps and the same sequence of
\* command lengths (clamped to the largest message), but different command
\* bytes, present identical line sequences to Os::Write when dumped, Os::Write
\* answering both alike: at every point of the two dumps the lines written so
\* far are the same, and the dumps return the same value.
C26_DumpIndependentOfPayload ==
    (twin.exists /\ twin.same_lens)
       => /\ LinesOf(os_writes) = LinesOf(twin.os_writes)
          /\ pc = twin.pc
          /\ ret.val = twin.ret.val
          /\ fatal = "" /\ twin.fatal = ""

\* two processors holding two records each, the same in length and different in
\* bytes, have been dumped: each dump wrote two different lines
C26_Witness ==
    /\ BothDumped
    /\ twin.same_lens
    /\ twin.n_writes = 2
    /\ ret.val = TRUE
    /\ Len(os_writes) = 2
    /\ Len(twin.os_writes) = 2
    /\ os_writes[1].buf # os_writes[2].buf
    /\ Readable(current_log_buffer_) # Readable(twin.mb)
    /\ \A i \in 1..2 : Readable(current_log_buffer_)[i] # Readable(twin.mb)[i]

-----------------------------------------------------------------------------
(* Claims about Os::Write (OsSpec) *)

\* this step is a call of Os::Write
OsWriteCalled == last'.op = "Write" /\ last' # last

\* C27: Os::Write(fd, buf, buflen) returns (n, 0) with n <= buflen when the raw
\* write returns n >= 0 (all of the buffer, part of it, or nothing), returns
\* (0, errno) when the raw write fails, and is fatal when buflen exceeds the
\* largest ssize_t or when the raw write reports more than buflen bytes written.
C27_Write ==
    [][OsWriteCalled =>
         IF last'.buflen > kMaxSsize \/ last'.res > last'.buflen
         THEN fatal' # ""
         ELSE /\ fatal' = ""
              /\ ret'.n_written <= last'.buflen
              /\ IF last'.res >= 0
                 THEN ret' = [n_written |-> last'.res, err |-> 0]
                 ELSE ret' = [n_written |-> 0, err |-> last'.raw_errno]
    ]_vars

\* a write of 8 bytes of which the raw write took 4 has returned (4, 0)
C27_Witness ==
    /\ last.op = "Write"
    /\ last.buflen = 8
    /\ last.res = 4
    /\ fatal = ""
    /\ ret = [n_written |-> 4, err |-> 0]

-----------------------------------------------------------------------------
(* Claims about the calls a command makes on the Os (Spec) *)

\* the clock ids read during the current call, in order
ClockIds(reads) == [i \in 1..Len(reads) |-> reads[i].clock_id]

\* C28: a write command that is accepted reads each of the three clocks
\* exactly once, in the order CLOCK_MONOTONIC, CLOCK_BOOTTIME, CLOCK_REALTIME,
\* after any eviction (an evicted store is already empty when the clocks are
\* read) and before the append (the record is not yet in the store), and makes
\* no Os::Write call; a command shorter than a command header and a dump
\* command, at its call and all through its loop, read no clock.
C28_ClockReads ==
    /\ [][WriteAccepted
          => /\ ClockIds(clock_reads') = Clocks
             /\ \A i \in 1..3 :
                   /\ clock_reads'[i].write_pos_ = RecordStart
                   /\ last'.cleared => clock_reads'[i].write_pos_ = 0
                   /\ clock_reads'[i].write_pos_ < current_log_buffer_'.write_pos_
             /\ os_writes' = <<>>
       ]_vars
    /\ [][(Called /\ (last'.n_bytes_read < kCommandSize \/ DumpCalled)) => clock_reads' = <<>>]_vars
    /\ [](pc = "Dump" => clock_reads = <<>>)

\* a write command has been accepted by a store that held a record and had to
\* be evicted: the clocks were read at write position 0
C28_Witness ==
    /\ last.op = "ProcessCommand"
    /\ IsWrite(last.input_buffer)
    /\ last.cleared
    /\ fatal = ""
    /\ ret.val = TRUE
    /\ ClockIds(clock_reads) = Clocks
    /\ clock_reads[1].write_pos_ = 0
    /\ current_log_buffer_.write_pos_ > 0
    /\ os_writes = <<>>

\* a call with a write command whose composite fits in the free space of the store
WriteThatFitsCalled ==
    /\ WriteCalled
    /\ CanFitNow(current_log_buffer_, TotalSize(last'.n_bytes_read))

\* C29: when the composite of a write command fits in the free space of the
\* store (CanFitNow is true), CopyCommandToLog does not clear the store: the
\* command is accepted, the read position and every byte below the old write
\* position are as they were, the records stored before are all still read,
\* unchanged and in order, and the new record is read after them.
C29_NoEvictionWithoutNeed ==
    [][WriteThatFitsCalled
       => /\ fatal' = ""
          /\ ret'.val = TRUE
          /\ ~last'.cleared
          /\ current_log_buffer_'.read_pos_ = current_log_buffer_.read_pos_
          /\ current_log_buffer_'.write_pos_ > current_log_buffer_.write_pos_
          /\ \A i \in 1..current_log_buffer_.write_pos_ :
                current_log_buffer_'.data_[i] = current_log_buffer_.data_[i]
          /\ Len(Readable(current_log_buffer_')) = Len(Readable(current_log_buffer_)) + 1
          /\ SubSeq(Readable(current_log_buffer_'), 1, Len(Readable(current_log_buffer_)))
                = Readable(current_log_buffer_)
          /\ IsCompositeOf(Readable(current_log_buffer_')[Len(Readable(current_log_buffer_'))],
                           last'.input_buffer, CommandLen(last'.n_bytes_read))
    ]_vars

\* a store that held a largest record has taken a smallest one beside it: the
\* store is full and both records are read, the older first
C29_Witness ==
    /\ last.op = "ProcessCommand"
    /\ IsWrite(last.input_buffer)
    /\ last.n_bytes_read = kCommandSize
    /\ ~last.cleared
    /\ fatal = ""
    /\ ret.val = TRUE
    /\ current_log_buffer_.write_pos_ = current_log_buffer_.capacity_
    /\ Len(Readable(current_log_buffer_)) = 2
    /\ Len(Readable(current_log_buffer_)[1]) = kTimestampHeaderSize + kMaxMessageSize
    /\ Len(Readable(current_log_buffer_)[2]) = kTimestampHeaderSize + kCommandSize

-----------------------------------------------------------------------------
(* Claims about MainLoop::RunOnce (MainSpec) *)

\* this step is a call of RunOnce: it leaves what ReceiveDatagram answered
RunOnceCalled == pc = "idle" /\ fatal = "" /\ last'.op \in {"RunOnce", "ProcessCommand"}

\* C30: when ReceiveDatagram reports an error, RunOnce does not call
\* ProcessCommand and the store, like all the processor has, is as it was;
\* otherwise it calls ProcessCommand once, with the receive buffer, the length
\* min(datagram_len, kMaxMessageSize) and the fd Os::kInvalidFd, so that the
\* length never exceeds the size of the receive buffer; the passes of a dump's
\* loop that follow belong to that call.
C30_RunOnce ==
    /\ [][(RunOnceCalled /\ datagram'.err # 0)
          => /\ last'.op = "RunOnce"
             /\ current_log_buffer_' = current_log_buffer_
             /\ appended' = appended
             /\ UNCHANGED <<fatal, pc, ret, clock_reads, os_writes, close_calls, open_fds>>
       ]_vars
    /\ [][(RunOnceCalled /\ datagram'.err = 0)
          => /\ last'.op = "ProcessCommand"
             /\ last'.n_bytes_read = IF datagram'.datagram_len < kMaxMessageSize
                                     THEN datagram'.datagram_len ELSE kMaxMessageSize
             /\ last'.fd = kInvalidFd
             /\ Len(last'.input_buffer) = kMaxMessageSize
             /\ last'.n_bytes_read <= Len(last'.input_buffer)
       ]_vars
    /\ [][pc = "Dump" => last' = last /\ datagram' = datagram]_vars

\* a datagram one byte longer than the largest message has been received and
\* handed to ProcessCommand, which stored a largest record
C30_Witness ==
    /\ datagram = [datagram_len |-> kMaxMessageSize + 1, err |-> 0]
    /\ last.op = "ProcessCommand"
    /\ last.n_bytes_read = kMaxMessageSize
    /\ last.fd = kInvalidFd
    /\ IsWrite(last.input_buffer)
    /\ fatal = ""
    /\ ret.val = TRUE
    /\ appended # <<>>
    /\ Len(appended[Len(appended)]) = kTimestampHeaderSize + kMaxMessageSize

-----------------------------------------------------------------------------
(* Claims about the range of Os::GetTimestamp (OsSpec) *)

\* a step on which Os::GetTimestamp returns, time_t being 32 bits wide
GetTimestampReturns == GetTimestampCalled /\ fatal' = ""

\* a step on which Os::GetTimestamp returns, time_t being 64 bits wide
GetTimestampWideReturns ==
    fatal = "" /\ last'.op = "GetTimestamp, time_t of 64 bits" /\ fatal' = ""

\* C31: every Timestamp returned by Os::GetTimestamp has 0 <= secs <= 2^32 - 1
\* and 0 <= nsecs <= 999,999,999: a tv_sec below 0 comes back as 0, a tv_sec
\* above 2^32 - 1 (which a time_t of 64 bits can hold) comes back as 2^32 - 1,
\* and a negative tv_nsec is not fatal but comes back as 0.
C31_TimestampRange ==
    /\ [][GetTimestampReturns
          => /\ 0 <= ret'.secs /\ ret'.secs <= kMaxSeconds
             /\ WideLess(Wide(ret'.secs \div U16Mod, ret'.secs % U16Mod), kMaxUint32)
             /\ 0 <= ret'.nsecs /\ ret'.nsecs <= 999999999
             /\ last'.tv_sec < 0 => ret'.secs = 0
             /\ last'.tv_nsec < 0 => ret'.nsecs = 0
       ]_vars
    /\ [][GetTimestampWideReturns
          => /\ ~WideLess(ret'.secs, Wide(0, 0))
             /\ ~WideLess(kMaxUint32, ret'.secs)
             /\ ret'.secs.lo \in 0..(U16Mod - 1)
             /\ 0 <= ret'.nsecs /\ ret'.nsecs <= 999999999
             /\ WideLess(last'.tv_sec, Wide(0, 0)) => ret'.secs = Wide(0, 0)
             /\ WideLess(kMaxUint32, last'.tv_sec) => ret'.secs = kMaxUint32
             /\ last'.tv_nsec < 0 => ret'.nsecs = 0
       ]_vars
    /\ [][(fatal = "" /\ last'.op \in {"GetTimestamp", "GetTimestamp, time_t of 64 bits"}
             /\ last'.failed = 0 /\ last'.tv_nsec < 0)
          => fatal' = ""]_vars

\* a clock that answered 2^32 + 1 seconds and -1 nanoseconds has been read as
\* (2^32 - 1, 0)
C31_Witness ==
    /\ last.op = "GetTimestamp, time_t of 64 bits"
    /\ last.tv_sec = Wide(U16Mod, 1)
    /\ last.tv_nsec = -1
    /\ fatal = ""
    /\ ret = Timestamp(kMaxUint32, 0)

-----------------------------------------------------------------------------
(* Claims about the store between commands (Spec) *)

\* no ProcessCommand is running and the process lives
BetweenCommands == pc = "idle" /\ fatal = ""

\* C32: between commands, after any sequence of ProcessCommand calls (writes,
\* evictions, dumps that succeeded or failed, rejected inputs), the read
\* position of the store is 0: every record stored since the last eviction is
\* still read from the store, nothing is consumed for good, and a dump's first
\* line is that of the oldest of these records.
C32_ReadPositionIsZeroBetweenCommands ==
    /\ [](BetweenCommands
            => /\ current_log_buffer_.read_pos_ = 0
               /\ Readable(current_log_buffer_) = appended)
    /\ []((fatal = "" /\ os_writes # <<>>)
            => /\ appended # <<>>
               /\ os_writes[1].buf = LineOfRecord(appended[1]))
    /\ [][(DumpCalled /\ fatal' = "" /\ pc' = "Dump") => rewinder' = 0]_vars

\* a dump of two records that failed partway has been followed by a dump that
\* wrote both lines: the read position is 0 again
C32_Witness ==
    /\ BetweenCommands
    /\ last.op = "ProcessCommand"
    /\ IsDump(last.input_buffer)
    /\ prev_dump.failed_since
    /\ ret.val = TRUE
    /\ Len(os_writes) = 2
    /\ AllWritten(os_writes)
    /\ current_log_buffer_.read_pos_ = 0
    /\ current_log_buffer_.write_pos_ > 0

\* the payload lengths of the records held between read and write position
RecordLengths(mb) == [i \in 1..Len(Readable(mb)) |-> Len(Readable(mb)[i])]

\* C33: every record held in the CommandProcessor's store has a payload length
\* L with sizeof(TimestampHeader) + sizeof(protocol::Command) <= L <=
\* sizeof(TimestampHeader) + kMaxMessageSize; so every message Dump takes from
\* the store is at least a timestamp header long: the CHECK of
\* CopyFromBufferOrDie<TimestampHeader> never fails and
\* buflen - sizeof(TimestampHeader) is never below zero.
C33_RecordLengthsInRange ==
    /\ \A i \in 1..Len(appended) :
          /\ kTimestampHeaderSize + kCommandSize <= Len(appended[i])
          /\ Len(appended[i]) <= kTimestampHeaderSize + kMaxMessageSize
    /\ (fatal = "" /\ pc = "idle")
          => \A i \in 1..Len(RecordLengths(current_log_buffer_)) :
                /\ kTimestampHeaderSize + kCommandSize <= RecordLengths(current_log_buffer_)[i]
                /\ RecordLengths(current_log_buffer_)[i] <= kTimestampHeaderSize + kMaxMessageSize
    /\ (fatal = "" /\ pc = "Dump")
          => /\ CopyFromBufferOrDieCheck(dump.buflen, kTimestampHeaderSize)
             /\ SizeTSub(dump.buflen, kTimestampHeaderSize) = dump.buflen - kTimestampHeaderSize
             /\ dump.buflen - kTimestampHeaderSize >= kCommandSize
    /\ fatal # "CHECK in CopyFromBufferOrDie<TimestampHeader>"

\* Dump is at a smallest record, stored behind a largest one
C33_Witness ==
    /\ fatal = ""
    /\ pc = "Dump"
    /\ Len(appended) = 2
    /\ Len(os_writes) = 1
    /\ Len(appended[1]) = kTimestampHeaderSize + kMaxMessageSize
    /\ dump.buflen = kTimestampHeaderSize + kCommandSize

\* the store can hold the largest record
HoldsLargestRecord(mb) == mb.capacity_ >= kHeaderSize + kTimestampHeaderSize + kMaxMessageSize

\* the store as CopyCommandToLog has it after the optional Clear
AfterOptionalClear(mb, total_size) == IF CanFitNow(mb, total_size) THEN mb ELSE Clear(mb)

\* C34: when the capacity of the store is at least
\* 2 + sizeof(TimestampHeader) + kMaxMessageSize, no fatal check of the write
\* path fails, for any input length and after any commands:
\* CHECK(CanFitEver(total_size)) holds, CHECK(CanFitNow(total_size)) holds
\* after the optional Clear, the two AppendOrDie stay within the scratch
\* buffer, and Append returns true; the write command returns true.
C34_WritePathNeverAborts ==
    /\ []((fatal = "" /\ pc = "idle" /\ HoldsLargestRecord(current_log_buffer_))
            => \A n \in LengthSamples :
                  /\ CanFitEver(current_log_buffer_, TotalSize(n))
                  /\ CanFitNow(AfterOptionalClear(current_log_buffer_, TotalSize(n)), TotalSize(n))
                  /\ kTimestampHeaderSize + CommandLen(n) <= kTimestampHeaderSize + kMaxMessageSize
                  /\ n > 0 =>
                       MBAppend(AfterOptionalClear(current_log_buffer_, TotalSize(n)),
                                [i \in 1..TotalSize(n) |-> 0], TotalSize(n)).ret)
    /\ [][(WriteCalled /\ HoldsLargestRecord(current_log_buffer_))
          => /\ fatal' = ""
             /\ pc' = "idle"
             /\ ret'.val = TRUE
             /\ appended' # <<>>
             /\ Len(appended'[Len(appended')]) = TotalSize(last'.n_bytes_read)
       ]_vars

\* a store of exactly the least such capacity, holding a record, has taken a
\* write command of more than 2^16 bytes: it was cleared and is full
C34_Witness ==
    /\ current_log_buffer_.capacity_ = kHeaderSize + kTimestampHeaderSize + kMaxMessageSize
    /\ last.op = "ProcessCommand"
    /\ IsWrite(last.input_buffer)
    /\ last.n_bytes_read = U16Mod + kCommandSize
    /\ last.cleared
    /\ fatal = ""
    /\ ret.val = TRUE
    /\ current_log_buffer_.write_pos_ = current_log_buffer_.capacity_

\* the number of records a dump started now would hand out
RecordCount(mb) == Len(Readable(mb))

\* C35: between commands the store holds as many records as write commands
\* were accepted since, and including, the one that last evicted (or since
\* construction): an accepted write adds one record, or leaves exactly one
\* when it evicts; any other command, a dump included, leaves the count as
\* it was when it returns; and a dump that returns true has called Os::Write
\* once per retained record.
C35_RetainedRecordCount ==
    /\ [](BetweenCommands => RecordCount(current_log_buffer_) = Len(appended))
    /\ [][WriteAccepted
          => RecordCount(current_log_buffer_') =
                IF last'.cleared THEN 1 ELSE RecordCount(current_log_buffer_) + 1]_vars
    /\ [][(Called /\ ~WriteCalled /\ fatal' = "" /\ pc' = "idle")
          => RecordCount(current_log_buffer_') = RecordCount(current_log_buffer_)]_vars
    /\ [][DumpReturns
          => /\ RecordCount(current_log_buffer_') = Len(appended)
             /\ ret'.val = TRUE => Len(os_writes') = Len(appended)]_vars

\* a dump of a store of two records, the second write interrupted, has
\* returned true after two calls of Os::Write and left both records
C35_Witness ==
    /\ BetweenCommands
    /\ last.op = "ProcessCommand"
    /\ IsDump(last.input_buffer)
    /\ ret.val = TRUE
    /\ Len(appended) = 2
    /\ Len(os_writes) = 2
    /\ os_writes[2].err = EINTR
    /\ RecordCount(current_log_buffer_) = 2

\* Os::Write reported no error and fewer bytes than it was given
IsShortWrite(w) == w.err = 0 /\ w.n_written < Len(w.buf)

\* C36: a short write is not retried. Inside Dump's loop Os::Write has been
\* called once for each record consumed before the current one; when a call
\* reports no error and fewer bytes than the line, that one call is all the
\* record gets, and Dump goes on to the next record or, after the last one,
\* returns true; a dump in which no write reported an error returns true
\* having passed to Os::Write exactly one line per record, in order.
C36_ShortWriteNotRetried ==
    /\ []((pc = "Dump" /\ fatal = "") => Len(os_writes) = n_consumed - 1)
    /\ [][(pc = "Dump" /\ fatal = "" /\ Len(os_writes') = Len(os_writes) + 1
             /\ IsShortWrite(os_writes'[Len(os_writes')]))
          => /\ fatal' = ""
             /\ SubSeq(os_writes', 1, Len(os_writes)) = os_writes
             /\ IF n_consumed < Len(appended)
                THEN /\ pc' = "Dump"
                     /\ n_consumed' = n_consumed + 1
                     /\ dump'.buf # dump.buf
                ELSE /\ pc' = "idle"
                     /\ ret'.val = TRUE]_vars
    /\ [][(DumpReturns /\ \A i \in 1..Len(os_writes') : os_writes'[i].err = 0)
          => /\ ret'.val = TRUE
             /\ LinesOf(os_writes') = [i \in 1..Len(appended) |-> LineOfRecord(appended[i])]]_vars

\* a dump of two records whose first line was written in part only has
\* returned true after one more call of Os::Write, for the second record
C36_Witness ==
    /\ BetweenCommands
    /\ last.op = "ProcessCommand"
    /\ IsDump(last.input_buffer)
    /\ ret.val = TRUE
    /\ Len(appended) = 2
    /\ Len(os_writes) = 2
    /\ IsShortWrite(os_writes[1])
    /\ os_writes[2].n_written = Len(os_writes[2].buf)
    /\ os_writes[2].err = 0

\* ProcessCommand is inside the loop of Dump
InDumpLoop == pc = "Dump" /\ fatal = ""

\* C37: Dump terminates. A command that has entered Dump's loop returns;
\* with N records retained, the loop is entered at most N times (each pass
\* calls Os::Write once) whatever Os::Write answers; every pass that stays in
\* the loop moves the read position forward by a whole record, at least the
\* 2 bytes of its length header, and not beyond the write position, which
\* no pass changes; so one record fewer is left to consume after each pass.
C37_DumpTerminates ==
    /\ InDumpLoop ~> (pc = "idle" /\ fatal = "")
    /\ [](InDumpLoop
            => /\ Len(os_writes) < Len(appended)
               /\ n_consumed = Len(os_writes) + 1
               /\ current_log_buffer_.read_pos_ <= current_log_buffer_.write_pos_
               /\ RecordCount(current_log_buffer_) = Len(appended) - n_consumed)
    /\ [][InDumpLoop
          => /\ fatal' = ""
             /\ current_log_buffer_'.write_pos_ = current_log_buffer_.write_pos_
             /\ Len(os_writes') = Len(os_writes) + 1
             /\ Len(os_writes') <= Len(appended)
             /\ pc' = "Dump"
                  => /\ current_log_buffer_'.read_pos_ >= current_log_buffer_.read_pos_ + kHeaderSize
                     /\ current_log_buffer_'.read_pos_ <= current_log_buffer_.write_pos_
                     /\ RecordCount(current_log_buffer_') = RecordCount(current_log_buffer_) - 1]_vars

\* a dump of two records has returned true after two passes, one answered
\* with a short write and one with EINTR
C37_Witness ==
    /\ BetweenCommands
    /\ last.op = "ProcessCommand"
    /\ IsDump(last.input_buffer)
    /\ ret.val = TRUE
    /\ Len(appended) = 2
    /\ Len(os_writes) = 2
    /\ IsShortWrite(os_writes[1])
    /\ os_writes[2].err = EINTR

\* the last step evaluated SAFELY_CLAMP
ClampReturned == last.op = "SAFELY_CLAMP"

\* C38: SAFELY_CLAMP(src, DstType, MIN, MAX) is MIN when src < MIN, MAX when
\* src > MAX and numerically equal to src otherwise; the result is a value of
\* DstType within [MIN, MAX], also when source and destination differ in
\* signedness or width: int8 -1 to uint8 in [0, 127] gives 0, and uint8 128
\* to int8 in [0, 127] gives 127.
C38_SafelyClamp ==
    /\ ClampReturned
         => /\ last.src < last.MinV => ret = last.MinV
            /\ last.src > last.MaxV => ret = last.MaxV
            /\ (last.MinV <= last.src /\ last.src <= last.MaxV) => ret = last.src
            /\ last.MinV <= ret /\ ret <= last.MaxV
            /\ last.DstType.lo <= ret /\ ret <= last.DstType.hi
    /\ SAFELY_CLAMP(-1, Int8, Uint8, 0, 127) = 0
    /\ SAFELY_CLAMP(128, Uint8, Int8, 0, 127) = 127

\* uint8 128 has been clamped to int8 in [0, 127], giving 127
C38_Witness ==
    /\ ClampReturned
    /\ last.SrcType = Uint8
    /\ last.DstType = Int8
    /\ last.MinV = 0
    /\ last.MaxV = 127
    /\ last.src = 128
    /\ ret = 127

====
